---- MODULE Spec2Model ----
(***************************************************************************)
(* Verification model of the m8-display gateway: the SLIP frame decoder,   *)
(* the serial link with its reconnect loop, the TCP broadcaster and the    *)
(* audio hub.  Every component has its own specification over the shared   *)
(* variables; the variables of the other components stay at their initial  *)
(* values.                                                                 *)
(***************************************************************************)
EXTENDS Integers, Sequences, FiniteSets, Bags, TLC

\* ------------------------------------------------------------------ bounds
MaxStream == 4        \* bytes fed to the SLIP decoder in one behaviour
MaxChunk == 3         \* longest chunk of one feed() call
MaxTasks == 2         \* asynchronous continuations of the link in flight at once
MaxHandles == 1       \* SerialPort objects alive at once
MaxClients == 1       \* TCP clients connected at once
MaxEmit == 2          \* chunks handed to a broadcaster in one behaviour
MaxWs == 2            \* audio WebSockets connected at once
HubBufferSize == 2    \* capacity of the hub's ring buffer, scaled down from 256 KiB
MaxFrameLen == 13     \* longest frame handed to the command parser
MaxParses == 3        \* frames parsed in one behaviour
MaxDeltaCalls == 3     \* calls made on the delta cache in one behaviour
MaxPipeChunks == 3     \* serial chunks received in one behaviour
RingCapacity == 3      \* capacity of the ring buffer checked on its own
MaxRingOps == 4        \* calls made on that ring buffer in one behaviour
MaxSinks == 4          \* write streams created for recordings in one behaviour
MaxProcs == 2          \* capture processes spawned in one behaviour
MaxAudioClients == 1   \* audio clients of the streamer at a time
MaxReconnects == 1     \* reconnects of the serial link in one behaviour
MaxAttempts == 3       \* calls of capture.start() before the last audio client
MaxRequests == 2       \* input requests (REST or control WebSocket) in one behaviour
MaxClientData == 2     \* chunks the TCP clients send in one behaviour
MaxApplies == 2       \* commands applied to the text grid in one behaviour

\* --------------------------------------------------------------- constants
END == 192            \* SLIP.END     0xC0
ESC == 219            \* SLIP.ESC     0xDB
ESC_END == 220        \* SLIP.ESC_END 0xDC
ESC_ESC == 221        \* SLIP.ESC_ESC 0xDD
DataByte == 65        \* an ordinary data byte ('A')
MAX_SOFT_ATTEMPTS == 3  \* M8Connection.MAX_SOFT_ATTEMPTS
RecoveryStartArg == 500 \* the argument of resetM8Usb(500) in the reconnect tick
DefaultMaxLevel == 3    \* resetM8Usb's default maxLevel
DISPLAY_HEADER == 68    \* 0x44 'D'
AUDIO_HEADER == 65      \* 0x41 'A'
MaxUInt16 == 65535      \* the largest value Buffer.writeUInt16BE accepts
MSG_AUDIO == 0          \* 0x00, prefix of an audio WebSocket message
RECT == 254             \* M8Command.RECT   0xfe
TEXT == 253             \* M8Command.TEXT   0xfd
WAVE == 252             \* M8Command.WAVE   0xfc
JPAD == 251             \* M8Command.JPAD   0xfb
KEY_COMMAND == 67       \* 0x43 'C', first byte of sendKeys
SYSTEM == 255           \* M8Command.SYSTEM 0xff
SCREEN_WIDTH == 320
SCREEN_HEIGHT == 240
CHAR_WIDTH == 8
CHAR_HEIGHT == 10
COLS == 40
ROWS == 24
WHITE_LEVEL == 255      \* each channel of WHITE
HIGHLIGHT_THRESHOLD == 200
SCREEN_CLEAR_WIDTH == 320   \* SCREEN_CLEAR_THRESHOLD = 320 * 200
SCREEN_CLEAR_HEIGHT == 200

VARIABLES
  \* SlipDecoder
  slipBuffer,         \* SlipDecoder.buffer
  slipState,          \* SlipDecoder.state: "Normal" | "Escape"
  slipFrames,         \* frames handed to onFrame so far, in order
  slipFed,            \* every byte given to feed() so far, in order
  slipCalls,          \* number of feed() calls so far
  slipSplitEscape,    \* some feed() call began between ESC and its escaped byte
  encSent,            \* the byte sequences encoded and fed so far, in order
  \* M8Connection
  connected,          \* M8Connection.connected
  serial,             \* M8Connection.serial: 0 (null) or the SerialPort object's id
  optPort,            \* options.port: "" or the device path
  autoReconnect,      \* options.autoReconnect
  reconnectTimer,     \* M8Connection.reconnectTimer is set
  stopping,           \* M8Connection.stopping
  reconnectAttempts,  \* M8Connection.reconnectAttempts
  hstate,             \* per SerialPort object: unused/opening/open/errored/dead
  listeners,          \* per SerialPort object: how often setupListeners registered on it
  tasks,              \* the link's asynchronous continuations in flight
  devicePresent,      \* a matching device is enumerated on the host
  hooksFired,         \* calls of the onDisconnect hook made by the last step
  failedScans,        \* reconnect scans that found nothing since the counter was last 0
  lastLadder,         \* levels run by the most recent resetM8Usb call, in order
  lastLadderOk,       \* the most recent resetM8Usb call brought the device back
  errorsFired,        \* calls of the onError hook made by the last step
  timersRunning,      \* intervals set by setInterval and not cleared
  ownerStopped,       \* disconnect() was called and connect() not called by the owner since
  lastOp,             \* what the last step of the link did
  \* TcpProxy
  tcpClients,         \* keys of TcpProxy.clients
  sock,               \* per client id: free/open/errored/destroyed
  batchBuffer,        \* TcpProxy.batchBuffer
  batchTimer,         \* TcpProxy.batchTimer is set
  audioEnabled,       \* TcpProxy.audioEnabled
  tcpServer,          \* TcpProxy.server: null/listening/closed
  tcpRunning,         \* TcpProxy.running
  wire,               \* per client: the data of every write to its socket, in order
  flushedSince,       \* per client: chunk numbers flushed while it was in the map
  emitted,            \* chunks handed to broadcast/broadcastAudio so far
  tcpLast,            \* what the last step of the broadcaster did
  \* AudioHub
  hubClients,         \* AudioHub.clients
  readyState,         \* per WebSocket: none/OPEN/CLOSING
  hubRecv,            \* per WebSocket: the messages sent to it, in order
  ringBuffer,         \* AudioHub.ringBuffer
  recording,          \* AudioHub.recording
  fileStream,         \* what was written to AudioHub.fileStream
  hubEmitted,         \* chunks handed to onAudioData so far
  hubLast,            \* what the last step of the hub did
  \* command parser
  lastRectColor,      \* the parser's module-level lastRectColor
  parsedFrame,        \* the frame of the last parseCommand call
  parsedCmd,          \* what that call returned
  colorFormColor,     \* color of the last 8- or 12-byte rectangle frame parsed
  colorFormSeen,      \* such a frame has been parsed
  parseCount,         \* parseCommand calls so far
  \* TextBuffer
  textBuffer,         \* cells, cursorRow, cursorCol, lastUpdate
  gridCmd,            \* the command of the last applyText / applyRect call
  gridCount,          \* commands applied so far
  \* DisplayDelta
  delta,              \* textCache, rectCache, sentCount, skippedCount
  deltaHist,          \* the calls made on the cache, in order, with their results
  viewAll,            \* display of a consumer given every command
  viewAdmitted,       \* display of a consumer given the admitted commands
  \* command pipeline (serial data listener, handleFrame, onCommand)
  connSlip,           \* M8Connection.slip: the connection's decoder
  gridBuffer,         \* buffer: the TextBuffer the commands are applied to
  framebuffer,        \* the commands drawn on the framebuffer, in order
  pipeLog,            \* what the sinks were handed, in order
  tcpProxy,           \* a TCP proxy exists (TRUE) or tcpProxy is null
  chunkCount,         \* serial chunks received so far
  \* RingBuffer on its own
  ring,               \* buffer, size, readPos, writePos, count, allowOverwrite
  ringOffered,        \* bytes handed to push so far
  ringPushed,         \* bytes of the pushes that succeeded since construction or clear
  ringPopped,         \* bytes the pops returned, in order
  ringNoPop,          \* no pop since construction or the last clear
  ringCleared,        \* clear has been called
  ringLast,           \* the last call: op, arg, ret, out
  ringOps,            \* calls so far
  \* file recording of the AudioHub
  hubRecording,       \* AudioHub.recording
  hubFileStream,      \* AudioHub.fileStream: a stream, or NoStream for null
  sinks,              \* each write stream: "none", "open", "ending", "closed"
  pendingEnds,        \* stopRecording calls suspended on an end() callback
  recLast,            \* the last step of the recording
  \* audio capture
  cap,                \* the capture object and its processes
  capLast,            \* the last step of the capture
  \* audio streamer
  streamer,           \* UsbAudioStreamer, its clients and the onConnect timers
  streamerLast,       \* the last step of the streamer
  \* shutdown
  shut,               \* shutdown() and what it acts on
  \* USB recovery
  ult,                \* a call of ultimateReset(): position, methods tried, result
  \* key input
  input,              \* the input requests in progress and the writes to the serial link
  \* input of the TCP clients
  clientIn            \* the chunks TCP clients sent, their forwarding, and the process

slipVars == <<slipBuffer, slipState, slipFrames, slipFed, slipCalls, slipSplitEscape,
              encSent>>

linkVars == <<connected, serial, optPort, autoReconnect, reconnectTimer, stopping,
              reconnectAttempts, hstate, listeners, tasks, devicePresent,
              hooksFired, failedScans, lastLadder, ownerStopped, lastOp,
              lastLadderOk, errorsFired, timersRunning>>

tcpVars == <<tcpClients, sock, batchBuffer, batchTimer, audioEnabled, tcpServer, tcpRunning,
             wire, flushedSince, emitted, tcpLast>>

hubVars == <<hubClients, readyState, hubRecv, ringBuffer, recording, fileStream,
             hubEmitted, hubLast>>

parserVars == <<lastRectColor, parsedFrame, parsedCmd, colorFormColor, colorFormSeen,
                parseCount>>

gridVars == <<textBuffer, gridCmd, gridCount>>

deltaVars == <<delta, deltaHist, viewAll, viewAdmitted>>

pipeVars == <<connSlip, gridBuffer, framebuffer, pipeLog, tcpProxy, chunkCount>>

ringVars == <<ring, ringOffered, ringPushed, ringPopped, ringNoPop, ringCleared, ringLast,
              ringOps>>

recVars == <<hubRecording, hubFileStream, sinks, pendingEnds, recLast>>

capVars == <<cap, capLast>>

streamerVars == <<streamer, streamerLast>>

shutVars == <<shut>>

ultVars == <<ult>>

inputVars == <<input>>

clientVars == <<clientIn>>


\* The command side: parser, delta cache, text grid, command pipeline.
cmdVars == <<parserVars, gridVars, deltaVars, pipeVars, ringVars, recVars, capVars,
             streamerVars, shutVars, ultVars, inputVars, clientVars>>

vars == <<slipBuffer, slipState, slipFrames, slipFed, slipCalls, slipSplitEscape, encSent,
          connected, serial, optPort, autoReconnect, reconnectTimer, stopping,
          reconnectAttempts, hstate, listeners, tasks, devicePresent,
          hooksFired, failedScans, lastLadder, ownerStopped, lastOp,
          lastLadderOk, errorsFired, timersRunning,
          tcpClients, sock, batchBuffer, batchTimer, audioEnabled, tcpServer, tcpRunning,
          wire, flushedSince, emitted, tcpLast,
          hubClients, readyState, hubRecv, ringBuffer, recording, fileStream,
          hubEmitted, hubLast,
          lastRectColor, parsedFrame, parsedCmd, colorFormColor, colorFormSeen, parseCount,
          textBuffer, gridCmd, gridCount,
          delta, deltaHist, viewAll, viewAdmitted,
          connSlip, gridBuffer, framebuffer, pipeLog, tcpProxy, chunkCount,
          ring, ringOffered, ringPushed, ringPopped, ringNoPop, ringCleared, ringLast,
          ringOps,
          hubRecording, hubFileStream, sinks, pendingEnds, recLast,
          cap, capLast, streamer, streamerLast, shut, ult, input, clientIn>>

\* ============================================================ SLIP decoder
Bytes == {END, ESC, ESC_END, ESC_ESC, DataByte}

RECURSIVE SeqsUpTo(_, _)
SeqsUpTo(S, n) ==
  IF n = 0 THEN {<<>>}
  ELSE LET shorter == SeqsUpTo(S, n - 1)
       IN  shorter \cup {Append(s, b) : s \in {t \in shorter : Len(t) = n - 1}, b \in S}

\* A decoder is the record of its fields plus the frames it has emitted.
NewDecoder == [buffer |-> <<>>, state |-> "Normal", frames |-> <<>>]

processNormalByte(d, byte) ==
  IF byte = END
    THEN IF Len(d.buffer) > 0
           THEN [d EXCEPT !.frames = Append(d.frames, d.buffer), !.buffer = <<>>]
           ELSE d
  ELSE IF byte = ESC
    THEN [d EXCEPT !.state = "Escape"]
  ELSE [d EXCEPT !.buffer = Append(d.buffer, byte)]

processEscapeByte(d, byte) ==
  LET n == [d EXCEPT !.state = "Normal"]
  IN  IF byte = ESC_END THEN [n EXCEPT !.buffer = Append(n.buffer, END)]
      ELSE IF byte = ESC_ESC THEN [n EXCEPT !.buffer = Append(n.buffer, ESC)]
      ELSE [n EXCEPT !.buffer = Append(n.buffer, byte)]

processByte(d, byte) ==
  IF d.state = "Normal" THEN processNormalByte(d, byte)
  ELSE processEscapeByte(d, byte)

RECURSIVE feedFrom(_, _, _)
feedFrom(d, data, i) ==
  IF i > Len(data) THEN d
  ELSE feedFrom(processByte(d, data[i]), data, i + 1)

\* A feed() that starts every call in the Normal state (the escape flag kept
\* in a local instead of a field).
feedForgetsEscape(d, data) == feedFrom([d EXCEPT !.state = "Normal"], data, 1)

feed(d, data) == feedFrom(d, data, 1)

SlipInit ==
  /\ slipBuffer = <<>>
  /\ slipState = "Normal"
  /\ slipFrames = <<>>
  /\ slipFed = <<>>
  /\ slipCalls = 0
  /\ slipSplitEscape = FALSE
  /\ encSent = <<>>

\* One call of SlipDecoder.feed with a chunk of the serial stream.
Feed ==
  \E data \in SeqsUpTo(Bytes, MaxChunk) :
    /\ Len(slipFed) + Len(data) <= MaxStream
    /\ slipCalls < MaxStream + 1
    /\ LET d == feed([buffer |-> slipBuffer, state |-> slipState,
                      frames |-> slipFrames], data)
       IN  /\ slipBuffer' = d.buffer
           /\ slipState' = d.state
           /\ slipFrames' = d.frames
    /\ slipFed' = slipFed \o data
    /\ slipCalls' = slipCalls + 1
    /\ slipSplitEscape' = (slipSplitEscape \/ (slipState = "Escape" /\ Len(data) > 0))
    /\ encSent' = encSent
    /\ UNCHANGED <<linkVars, tcpVars, hubVars, cmdVars>>

SlipNext == Feed

\* A slipEncode that copies END and ESC bytes unescaped.
slipEncodeRaw(data) == data \o <<END>>

RECURSIVE encodeBytes(_)
\* The loop of slipEncode: END and ESC become two-byte escapes.
encodeBytes(data) ==
  IF data = <<>> THEN <<>>
  ELSE LET byte == Head(data)
           out == IF byte = END THEN <<ESC, ESC_END>>
                  ELSE IF byte = ESC THEN <<ESC, ESC_ESC>>
                  ELSE <<byte>>
       IN  out \o encodeBytes(Tail(data))

\* slipEncode(data): the escaped bytes and the frame delimiter.
slipEncode(data) == encodeBytes(data) \o <<END>>

\* decoder.feed(slipEncode(B)) for a byte sequence B, on the decoder as the
\* previous calls left it.
FeedEncoded ==
  /\ Len(slipFed) < 2 * MaxChunk
  /\ \E B \in SeqsUpTo(Bytes, IF 2 * MaxChunk - Len(slipFed) <= MaxChunk
                                THEN 2 * MaxChunk - Len(slipFed) - 1 ELSE MaxChunk) :
    /\ Len(slipFed) + Len(slipEncode(B)) <= 2 * MaxChunk
    /\ LET data == slipEncode(B)
           d == feed([buffer |-> slipBuffer, state |-> slipState,
                      frames |-> slipFrames], data)
       IN  /\ slipBuffer' = d.buffer
           /\ slipState' = d.state
           /\ slipFrames' = d.frames
           /\ slipFed' = slipFed \o data
    /\ slipCalls' = slipCalls + 1
    /\ slipSplitEscape' = (slipSplitEscape \/ (slipState = "Escape"))
    /\ encSent' = Append(encSent, B)
    /\ UNCHANGED <<linkVars, tcpVars, hubVars, cmdVars>>

CodecNext == FeedEncoded


\* ============================================================= serial link
DevPath == "/dev/ttyACM0"
Handles == 1..MaxHandles
Task(who, pc, h) == [who |-> who, pc |-> pc, h |-> h]
Op(name, arg) == [name |-> name, arg |-> arg]
Quiet == Op("", "")

\* The fields of M8Connection the handlers read and write, as one record;
\* hooks counts the onDisconnect calls of the step being taken, errors its
\* onError calls.
Link ==
  [connected |-> connected, serial |-> serial, port |-> optPort,
   timer |-> reconnectTimer, stopping |-> stopping, attempts |-> reconnectAttempts,
   hooks |-> 0, scans |-> failedScans, errors |-> 0, ladderOk |-> lastLadderOk,
   timers |-> timersRunning]

\* tasks is the bag of pending continuations: what awaits, and on which port.
CanSpawn == BagCardinality(tasks) < MaxTasks
Spawn(task) == tasks (+) SetToBag({task})
Finish(task) == tasks (-) SetToBag({task})
Continue(task, next) == Finish(task) (+) SetToBag({next})
UnusedHandles == {h \in Handles : hstate[h] = "unused"}
NewHandle == CHOOSE h \in UnusedHandles : \A g \in UnusedHandles : h <= g

\* A SerialPort object that can emit nothing any more and that neither
\* this.serial nor a pending callback refers to is garbage: its id is free again.
Garbage(hs, ser, tk) ==
  {h \in Handles : hs[h] = "dead" /\ ser # h /\ \A t \in BagToSet(tk) : t.h # h}

\* The state after a step of the link: its fields l, the pending continuations
\* tk, the SerialPort objects hs with their listener registrations ls.
Commit(l, tk, hs, ls, op) ==
  /\ connected' = l.connected
  /\ serial' = l.serial
  /\ optPort' = l.port
  /\ reconnectTimer' = l.timer
  /\ stopping' = l.stopping
  /\ reconnectAttempts' = l.attempts
  /\ hooksFired' = l.hooks
  /\ errorsFired' = l.errors
  /\ timersRunning' = l.timers
  /\ lastLadderOk' = l.ladderOk
  /\ failedScans' = l.scans
  /\ tasks' = tk
  /\ hstate' = [h \in Handles |-> IF h \in Garbage(hs, l.serial, tk) THEN "unused" ELSE hs[h]]
  /\ listeners' = [h \in Handles |-> IF h \in Garbage(hs, l.serial, tk) THEN 0 ELSE ls[h]]
  /\ lastOp' = op
  /\ UNCHANGED <<autoReconnect, slipVars, tcpVars, hubVars, cmdVars>>

\* findM8Device: the path of a matching port, or "" for null.
findM8Device == IF devicePresent THEN DevPath ELSE ""

\* clearInterval(this.reconnectTimer), if there is one.
stopReconnectLoop(l) ==
  IF l.timer THEN [l EXCEPT !.timer = FALSE, !.timers = @ - 1] ELSE l

startReconnectLoop(l) ==
  IF l.timer THEN l
  ELSE [l EXCEPT !.attempts = 0, !.scans = 0, !.timer = TRUE, !.timers = @ + 1]

\* A handleDisconnect without its `if (!this.connected) return`.
handleDisconnectUnguarded(l) ==
  LET a == [l EXCEPT !.connected = FALSE, !.serial = 0, !.port = "", !.hooks = @ + 1]
  IN  IF autoReconnect /\ ~a.stopping THEN startReconnectLoop(a) ELSE a

\* A handleDisconnect that keeps the stale device path.
handleDisconnectKeepsPort(l) ==
  IF ~l.connected THEN l
  ELSE LET a == [l EXCEPT !.connected = FALSE, !.serial = 0, !.hooks = @ + 1]
       IN  IF autoReconnect /\ ~a.stopping THEN startReconnectLoop(a) ELSE a

handleDisconnect(l) ==
  IF ~l.connected THEN l
  ELSE LET a == [l EXCEPT !.connected = FALSE, !.serial = 0, !.port = "",
                          !.hooks = @ + 1]
       IN  IF autoReconnect /\ ~a.stopping THEN startReconnectLoop(a) ELSE a

\* The same handler registered n times on one SerialPort object.
handlersRun(l, n) ==
  IF n = 0 THEN l
  ELSE IF n = 1 THEN handleDisconnect(l)
  ELSE handleDisconnect(handleDisconnect(l))

\* connect() up to its first suspension: h is the SerialPort it would create.
connect(l, h) ==
  IF l.connected THEN [link |-> l, next |-> "return"]
  ELSE LET a == [l EXCEPT !.stopping = FALSE]
       IN  IF a.port = "" THEN [link |-> a, next |-> "find"]
           ELSE [link |-> [a EXCEPT !.serial = h], next |-> "open"]

\* resetM8Usb(startLevel, maxLevel): the levels it runs, in order; okAt is the
\* level whose procedure brings the device back (0: none does).
RECURSIVE resetM8Usb(_, _, _)
resetM8Usb(startLevel, maxLevel, okAt) ==
  IF startLevel > maxLevel THEN [levels |-> <<>>, success |-> FALSE]
  ELSE IF startLevel = okAt THEN [levels |-> <<startLevel>>, success |-> TRUE]
  ELSE LET rest == resetM8Usb(startLevel + 1, maxLevel, okAt)
       IN  [levels |-> <<startLevel>> \o rest.levels, success |-> rest.success]

LinkInit ==
  /\ connected = FALSE
  /\ serial = 0
  /\ optPort \in {"", DevPath}
  /\ autoReconnect \in BOOLEAN
  /\ reconnectTimer = FALSE
  /\ stopping = FALSE
  /\ reconnectAttempts = 0
  /\ hstate = [h \in Handles |-> "unused"]
  /\ listeners = [h \in Handles |-> 0]
  /\ tasks = EmptyBag
  /\ devicePresent \in BOOLEAN
  /\ hooksFired = 0
  /\ failedScans = 0
  /\ lastLadder = <<>>
  /\ lastLadderOk = FALSE
  /\ errorsFired = 0
  /\ timersRunning = 0
  /\ ownerStopped = FALSE
  /\ lastOp = Quiet

\* The setInterval callback of startReconnectLoop, up to its first await.
TickFire ==
  /\ reconnectTimer
  /\ IF connected \/ stopping
       THEN Commit(stopReconnectLoop(Link), tasks, hstate, listeners, Quiet)
       ELSE /\ CanSpawn
            /\ LET n == reconnectAttempts + 1
                   pc == IF n >= MAX_SOFT_ATTEMPTS THEN "reset" ELSE "scan"
               IN  Commit([Link EXCEPT !.attempts = n],
                          Spawn(Task("tick", pc, 0)),
                          hstate, listeners, Quiet)
  /\ UNCHANGED <<devicePresent, lastLadder, ownerStopped>>

\* resetM8Usb(500) resolves in the tick.  Its result is a ResetResult object,
\* which `if (resetOk)` always takes as true.
TickResetDone(t) ==
  /\ t = Task("tick", "reset", 0)
  /\ \E okAt \in 0..DefaultMaxLevel :
       LET resetOk == resetM8Usb(RecoveryStartArg, DefaultMaxLevel, okAt)
       IN  /\ lastLadder' = resetOk.levels
           /\ Commit([Link EXCEPT !.attempts = 0, !.scans = 0, !.ladderOk = resetOk.success],
                     Finish(t), hstate, listeners, Op("tickRecovery", failedScans))
  /\ UNCHANGED <<devicePresent, ownerStopped>>

\* findM8Device() resolves in the tick; a found port is connected to.
TickScanDone(t) ==
  /\ t = Task("tick", "scan", 0)
  /\ IF findM8Device = ""
       THEN Commit([Link EXCEPT !.scans = @ + 1], Finish(t),
                   hstate, listeners, Quiet)
       ELSE LET l == [Link EXCEPT !.port = findM8Device]
            IN  IF connect(l, 0).next = "return"
                  THEN Commit([connect(l, 0).link EXCEPT !.attempts = 0, !.scans = 0],
                              Finish(t), hstate, listeners, Quiet)
                  ELSE /\ UnusedHandles # {}
                       /\ Commit(connect(l, NewHandle).link,
                                 Continue(t, Task("tick", "open", NewHandle)),
                                 [hstate EXCEPT ![NewHandle] = "opening"], listeners, Quiet)
  /\ UNCHANGED <<devicePresent, lastLadder, ownerStopped>>

\* The SerialPort open callback of connect(), with an error.
OpenFail(t) ==
  /\ t.pc = "open"
  /\ LET l == [Link EXCEPT !.errors = 1]
     IN  Commit(IF autoReconnect /\ ~stopping THEN startReconnectLoop(l) ELSE l,
                Finish(t),
                [hstate EXCEPT ![t.h] = "dead"], listeners, Quiet)
  /\ UNCHANGED <<devicePresent, lastLadder, ownerStopped>>

\* The SerialPort open callback of connect(), without error: setupListeners
\* registers on this.serial, and the tick that awaited connect() resets its counter.
OpenOk(t) ==
  /\ t.pc = "open"
  /\ devicePresent
  /\ LET l == stopReconnectLoop([Link EXCEPT !.connected = TRUE])
     IN  Commit(IF t.who = "tick" THEN [l EXCEPT !.attempts = 0, !.scans = 0] ELSE l,
                Finish(t),
                [hstate EXCEPT ![t.h] = "open"],
                IF serial = 0 THEN listeners ELSE [listeners EXCEPT ![serial] = @ + 1],
                Quiet)
  /\ UNCHANGED <<devicePresent, lastLadder, ownerStopped>>

\* connect() called by the owner (the startup code).
OwnerConnect ==
  /\ CanSpawn
  /\ ownerStopped' = FALSE
  /\ LET next == connect(Link, 0).next
     IN  IF next = "open"
           THEN /\ UnusedHandles # {}
                /\ Commit(connect(Link, NewHandle).link,
                          Spawn(Task("owner", "open", NewHandle)),
                          [hstate EXCEPT ![NewHandle] = "opening"], listeners, Quiet)
           ELSE Commit(connect(Link, 0).link,
                       IF next = "find"
                         THEN Spawn(Task("owner", "find", 0))
                         ELSE tasks,
                       hstate, listeners, Quiet)
  /\ UNCHANGED <<devicePresent, lastLadder>>

\* findM8Device() resolves inside the owner's connect(): no device throws
\* "M8 device not found"; a found one is opened.
OwnerFindDone(t) ==
  /\ t = Task("owner", "find", 0)
  /\ IF findM8Device = ""
       THEN Commit(Link, Finish(t), hstate, listeners,
                   Op("connectThrew", "M8 device not found"))
       ELSE /\ UnusedHandles # {}
            /\ Commit([Link EXCEPT !.port = findM8Device, !.serial = NewHandle],
                      Continue(t, Task("owner", "open", NewHandle)),
                      [hstate EXCEPT ![NewHandle] = "opening"], listeners, Quiet)
  /\ UNCHANGED <<devicePresent, lastLadder, ownerStopped>>

\* disconnect() up to its first await.
DisconnectCall ==
  /\ ownerStopped' = TRUE
  /\ LET l == stopReconnectLoop([Link EXCEPT !.stopping = TRUE])
     IN  IF serial = 0 \/ ~connected
           THEN Commit(l, tasks, hstate, listeners, Quiet)
           ELSE /\ CanSpawn
                /\ Commit(l, Spawn(Task("disc", "sentinel", 0)),
                          hstate, listeners, Quiet)
  /\ UNCHANGED <<devicePresent, lastLadder>>

\* disconnect() after `await sendRaw([0x44])` (its error is ignored): it calls
\* this.serial!.close(cb), which throws on null; a port that is not open calls
\* cb at once.
DisconnectSentinelDone(t) ==
  /\ t = Task("disc", "sentinel", 0)
  /\ IF serial = 0
       THEN Commit(Link, Finish(t), hstate, listeners,
                   Op("disconnectThrew", "serial is null"))
       ELSE IF hstate[serial] \in {"open", "errored"}
         THEN Commit(Link, Continue(t, Task("disc", "closing", serial)),
                     hstate, listeners, Quiet)
         ELSE Commit([Link EXCEPT !.connected = FALSE, !.serial = 0],
                     Finish(t), hstate, listeners, Quiet)
  /\ UNCHANGED <<devicePresent, lastLadder, ownerStopped>>

\* The port closed by disconnect(): it emits "close" to its listeners, then
\* the close callback clears connected and serial.
DisconnectCloseDone(t) ==
  /\ t.who = "disc" /\ t.pc = "closing"
  /\ LET h == t.h
         open == hstate[h] \in {"open", "errored"}
         l == IF open THEN handlersRun(Link, listeners[h]) ELSE Link
     IN  Commit([l EXCEPT !.connected = FALSE, !.serial = 0],
                Finish(t),
                [hstate EXCEPT ![h] = "dead"], listeners,
                IF open /\ connected /\ listeners[h] > 0 THEN Op("loss", "close") ELSE Quiet)
  /\ UNCHANGED <<devicePresent, lastLadder, ownerStopped>>

\* The port emits "error": onError, then handleDisconnect, per registration.
SerialError(h) ==
  /\ hstate[h] = "open"
  /\ Commit(handlersRun([Link EXCEPT !.errors = listeners[h]], listeners[h]), tasks,
            [hstate EXCEPT ![h] = "errored"], listeners,
            IF connected /\ listeners[h] > 0 THEN Op("loss", "error") ELSE Quiet)
  /\ UNCHANGED <<devicePresent, lastLadder, ownerStopped>>

\* The port emits "close" on its own (the device went away).
SerialClose(h) ==
  /\ hstate[h] \in {"open", "errored"}
  /\ Commit(handlersRun(Link, listeners[h]), tasks,
            [hstate EXCEPT ![h] = "dead"], listeners,
            IF connected /\ listeners[h] > 0 THEN Op("loss", "close") ELSE Quiet)
  /\ UNCHANGED <<devicePresent, lastLadder, ownerStopped>>

\* sendRaw(data): throws when not connected; otherwise write, then drain; an
\* error of either rejects the promise.  No field of the link is written.
SendRaw ==
  /\ \E outcome \in {"ok", "writeError", "drainError"} :
       Commit(Link, tasks, hstate, listeners,
              Op("sendRaw", IF serial = 0 \/ ~connected THEN "Not connected" ELSE outcome))
  /\ UNCHANGED <<devicePresent, lastLadder, ownerStopped>>

DeviceAppears ==
  /\ ~devicePresent
  /\ devicePresent' = TRUE
  /\ Commit(Link, tasks, hstate, listeners, Quiet)
  /\ UNCHANGED <<lastLadder, ownerStopped>>

DeviceVanishes ==
  /\ devicePresent
  /\ devicePresent' = FALSE
  /\ Commit(Link, tasks, hstate, listeners, Quiet)
  /\ UNCHANGED <<lastLadder, ownerStopped>>

LinkNext ==
  \/ TickFire
  \/ \E t \in BagToSet(tasks) : TickResetDone(t)
  \/ \E t \in BagToSet(tasks) : TickScanDone(t)
  \/ \E t \in BagToSet(tasks) : OpenFail(t)
  \/ \E t \in BagToSet(tasks) : OpenOk(t)
  \/ OwnerConnect
  \/ \E t \in BagToSet(tasks) : OwnerFindDone(t)
  \/ DisconnectCall
  \/ \E t \in BagToSet(tasks) : DisconnectSentinelDone(t)
  \/ \E t \in BagToSet(tasks) : DisconnectCloseDone(t)
  \/ \E h \in Handles : SerialError(h)
  \/ \E h \in Handles : SerialClose(h)
  \/ DeviceAppears
  \/ DeviceVanishes

\* ========================================================= TCP broadcaster
TcpClientIds == 1..MaxClients
ChunkLens == {1, MaxUInt16, MaxUInt16 + 1}

\* Wire data: header bytes one by one, a payload as one run of v bytes that
\* carries the number of the chunk it was copied from.
Byte(v) == [kind |-> "byte", v |-> v, id |-> 0]
Run(n, id) == [kind |-> "run", v |-> n, id |-> id]

\* Buffer.writeUInt16BE that stores the low 16 bits of any value.
writeUInt16BEWraps(value) ==
  [threw |-> FALSE, hi |-> (value \div 256) % 256, lo |-> value % 256]

\* Buffer.writeUInt16BE(value, 1): the two bytes, or a RangeError.
writeUInt16BE(value) ==
  IF value > MaxUInt16 THEN [threw |-> TRUE, hi |-> 0, lo |-> 0]
  ELSE [threw |-> FALSE, hi |-> value \div 256, lo |-> value % 256]

\* header + 2-byte length (BE) + data, as broadcast and broadcastAudio build it.
makePacket(header, len, id) ==
  LET w == writeUInt16BE(len)
  IN  IF w.threw THEN [threw |-> TRUE, bytes |-> <<>>]
      ELSE [threw |-> FALSE, bytes |-> <<Byte(header), Byte(w.hi), Byte(w.lo), Run(len, id)>>]

RECURSIVE concat(_)
concat(buffers) ==
  IF buffers = <<>> THEN <<>> ELSE Head(buffers) \o concat(Tail(buffers))

\* The write loop of flushBatch and broadcastAudio: a write that throws is
\* caught and the loop goes on; the client stays in the map.
writeAll(w, clients, failing, data) ==
  [c \in TcpClientIds |->
     IF c \in clients /\ c \notin failing THEN Append(w[c], data) ELSE w[c]]

\* flushBatch(): what it leaves of the batch and of each client's stream.
flushBatch(w, clients, failing) ==
  IF batchBuffer = <<>> \/ clients = {}
    THEN [wire |-> w, wrote |-> {}, failed |-> {}]
    ELSE [wire |-> writeAll(w, clients, failing, concat(batchBuffer)),
          wrote |-> clients \ failing, failed |-> clients \cap failing]

DisplayIdsOf(data) ==
  LET runs == SelectSeq(data, LAMBDA x : x.kind = "run")
  IN  [i \in 1..Len(runs) |-> runs[i].id]

TcpInit ==
  /\ tcpClients = {}
  /\ sock = [c \in TcpClientIds |-> "free"]
  /\ batchBuffer = <<>>
  /\ batchTimer = FALSE
  /\ audioEnabled \in BOOLEAN
  /\ tcpServer = "null"
  /\ tcpRunning = FALSE
  /\ wire = [c \in TcpClientIds |-> <<>>]
  /\ flushedSince = [c \in TcpClientIds |-> <<>>]
  /\ emitted = 0
  /\ tcpLast = [op |-> "", failed |-> {}, wrote |-> {}, before |-> {}]

TcpLast(op, failed, wrote) ==
  [op |-> op, failed |-> failed, wrote |-> wrote, before |-> tcpClients]

\* start(): the server is created and listens.
TcpStart ==
  /\ tcpServer = "null"
  /\ tcpServer' = "listening"
  /\ tcpRunning' = TRUE
  /\ tcpLast' = TcpLast("start", {}, {})
  /\ UNCHANGED <<tcpClients, sock, batchBuffer, batchTimer, audioEnabled, wire, flushedSince, emitted>>
  /\ UNCHANGED <<slipVars, linkVars, hubVars, cmdVars>>

\* handleConnection(socket)
TcpAccept(c) ==
  /\ tcpServer = "listening"
  /\ sock[c] = "free"
  /\ sock' = [sock EXCEPT ![c] = "open"]
  /\ tcpClients' = tcpClients \cup {c}
  /\ wire' = [wire EXCEPT ![c] = <<>>]
  /\ flushedSince' = [flushedSince EXCEPT ![c] = <<>>]
  /\ tcpLast' = TcpLast("accept", {}, {})
  /\ UNCHANGED <<batchBuffer, batchTimer, audioEnabled, tcpServer, tcpRunning, emitted>>
  /\ UNCHANGED <<slipVars, linkVars, hubVars, cmdVars>>

\* socket.on("error")
TcpSocketError(c) ==
  /\ sock[c] = "open"
  /\ sock' = [sock EXCEPT ![c] = "errored"]
  /\ tcpClients' = tcpClients \ {c}
  /\ tcpLast' = TcpLast("socketError", {}, {})
  /\ UNCHANGED <<batchBuffer, batchTimer, audioEnabled, tcpServer, tcpRunning, wire, flushedSince, emitted>>
  /\ UNCHANGED <<slipVars, linkVars, hubVars, cmdVars>>

\* socket.on("close")
TcpSocketClose(c) ==
  /\ sock[c] \in {"open", "errored", "destroyed"}
  /\ sock' = [sock EXCEPT ![c] = "free"]
  /\ tcpClients' = tcpClients \ {c}
  /\ tcpLast' = TcpLast("socketClose", {}, {})
  /\ UNCHANGED <<batchBuffer, batchTimer, audioEnabled, tcpServer, tcpRunning, wire, flushedSince, emitted>>
  /\ UNCHANGED <<slipVars, linkVars, hubVars, cmdVars>>

\* broadcast(data) with a serial chunk of len bytes.
Broadcast(len) ==
  /\ emitted < MaxEmit
  /\ emitted' = emitted + 1
  /\ LET packet == makePacket(DISPLAY_HEADER, len, emitted + 1)
     IN  IF tcpClients = {}
           THEN /\ tcpLast' = TcpLast("broadcast", {}, {})
                /\ UNCHANGED <<batchBuffer, batchTimer>>
         ELSE IF packet.threw
           THEN /\ tcpLast' = TcpLast("broadcastThrew", {}, {})
                /\ UNCHANGED <<batchBuffer, batchTimer>>
         ELSE /\ batchBuffer' = Append(batchBuffer, packet.bytes)
              /\ batchTimer' = TRUE
              /\ tcpLast' = TcpLast("broadcast", {}, {})
  /\ UNCHANGED <<tcpClients, sock, audioEnabled, tcpServer, tcpRunning, wire, flushedSince>>
  /\ UNCHANGED <<slipVars, linkVars, hubVars, cmdVars>>

\* The batch timer fires: flushBatch().
FlushTimer ==
  /\ batchTimer
  /\ batchTimer' = FALSE
  /\ batchBuffer' = <<>>
  /\ \E failing \in SUBSET tcpClients :
       LET r == flushBatch(wire, tcpClients, failing)
       IN  /\ wire' = r.wire
           /\ tcpLast' = TcpLast("flush", r.failed, r.wrote)
  /\ flushedSince' = [c \in TcpClientIds |->
                        IF c \in tcpClients
                          THEN flushedSince[c] \o DisplayIdsOf(concat(batchBuffer))
                          ELSE flushedSince[c]]
  /\ UNCHANGED <<tcpClients, sock, audioEnabled, tcpServer, tcpRunning, emitted>>
  /\ UNCHANGED <<slipVars, linkVars, hubVars, cmdVars>>

\* broadcastAudio(pcmData) with a PCM buffer of len bytes.
BroadcastAudio(len) ==
  /\ emitted < MaxEmit
  /\ emitted' = emitted + 1
  /\ LET packet == makePacket(AUDIO_HEADER, len, 0)
     IN  IF ~audioEnabled \/ tcpClients = {}
           THEN /\ tcpLast' = TcpLast("audio", {}, {})
                /\ UNCHANGED wire
         ELSE IF packet.threw
           THEN /\ tcpLast' = TcpLast("audioThrew", {}, {})
                /\ UNCHANGED wire
         ELSE \E failing \in SUBSET tcpClients :
                /\ wire' = writeAll(wire, tcpClients, failing, packet.bytes)
                /\ tcpLast' = TcpLast("audio", tcpClients \cap failing, tcpClients \ failing)
  /\ UNCHANGED <<tcpClients, sock, batchBuffer, batchTimer, audioEnabled, tcpServer, tcpRunning, flushedSince>>
  /\ UNCHANGED <<slipVars, linkVars, hubVars, cmdVars>>

\* stop(): clear the timer, flush what is queued, destroy every socket.
TcpStop ==
  /\ batchTimer' = FALSE
  /\ batchBuffer' = <<>>
  /\ \E failing \in SUBSET tcpClients :
       LET r == flushBatch(wire, tcpClients, failing)
       IN  /\ wire' = r.wire
           /\ tcpLast' = TcpLast("stop", r.failed, r.wrote)
  /\ flushedSince' = [c \in TcpClientIds |->
                        IF c \in tcpClients
                          THEN flushedSince[c] \o DisplayIdsOf(concat(batchBuffer))
                          ELSE flushedSince[c]]
  /\ IF tcpServer = "null"
       THEN UNCHANGED <<sock, tcpClients, tcpServer, tcpRunning>>
       ELSE /\ sock' = [c \in TcpClientIds |-> IF c \in tcpClients THEN "destroyed" ELSE sock[c]]
            /\ tcpClients' = {}
            /\ tcpServer' = "closed"
            /\ tcpRunning' = FALSE
  /\ UNCHANGED <<audioEnabled, emitted>>
  /\ UNCHANGED <<slipVars, linkVars, hubVars, cmdVars>>

TcpNext ==
  \/ TcpStart
  \/ \E c \in TcpClientIds : TcpAccept(c)
  \/ \E c \in TcpClientIds : TcpSocketError(c)
  \/ \E c \in TcpClientIds : TcpSocketClose(c)
  \/ \E len \in ChunkLens : Broadcast(len)
  \/ FlushTimer
  \/ \E len \in ChunkLens : BroadcastAudio(len)
  \/ TcpStop

\* ================================================================ Audio hub
WsIds == 1..MaxWs
\* PCM buffers: one that fits the ring buffer and one that exceeds it.
AudioChunks == {<<DataByte>>, [i \in 1..(HubBufferSize + 1) |-> DataByte + i]}

RECURSIVE setAt(_, _, _)
\* TypedArray.set(data, offset) on a 0-indexed buffer held as a sequence.
setAt(buffer, data, offset) ==
  IF data = <<>> THEN buffer
  ELSE setAt([buffer EXCEPT ![offset + 1] = Head(data)], Tail(data), offset + 1)

Min(a, b) == IF a < b THEN a ELSE b

NewRingBuffer(size, allowOverwrite) ==
  [buffer |-> [i \in 1..size |-> 0], size |-> size, readPos |-> 0, writePos |-> 0,
   count |-> 0, allowOverwrite |-> allowOverwrite]

\* A RingBuffer.push that keeps the leading bytes of data longer than the
\* buffer.
pushKeepsHead(rb, data) ==
  LET len == Len(data)
      available == rb.size - rb.count
  IN  IF len > rb.size
        THEN IF rb.allowOverwrite
               THEN [rb |-> [rb EXCEPT !.buffer = SubSeq(data, 1, rb.size),
                                       !.readPos = 0, !.writePos = 0, !.count = rb.size],
                     ret |-> len]
               ELSE [rb |-> rb, ret |-> -1]
      ELSE IF len > available /\ ~rb.allowOverwrite
        THEN [rb |-> rb, ret |-> -1]
      ELSE
        LET toDrop == IF len > available THEN len - available ELSE 0
            firstChunk == Min(len, rb.size - rb.writePos)
            b1 == setAt(rb.buffer, SubSeq(data, 1, firstChunk), rb.writePos)
            b2 == IF firstChunk < len
                    THEN setAt(b1, SubSeq(data, firstChunk + 1, len), 0)
                    ELSE b1
        IN  [rb |-> [rb EXCEPT !.buffer = b2, !.readPos = (rb.readPos + toDrop) % rb.size,
                               !.writePos = (rb.writePos + len) % rb.size,
                               !.count = rb.count - toDrop + len],
             ret |-> len]

\* A RingBuffer.push that, without overwrite, stores the bytes that fit and
\* reports the overflow.
pushStoresWhatFits(rb, data) ==
  LET available == rb.size - rb.count
      fits == SubSeq(data, 1, Min(Len(data), available))
      len == Len(fits)
      firstChunk == Min(len, rb.size - rb.writePos)
      b1 == setAt(rb.buffer, SubSeq(fits, 1, firstChunk), rb.writePos)
      b2 == IF firstChunk < len THEN setAt(b1, SubSeq(fits, firstChunk + 1, len), 0) ELSE b1
  IN  [rb |-> [rb EXCEPT !.buffer = b2, !.writePos = (rb.writePos + len) % rb.size,
                         !.count = rb.count + len],
       ret |-> IF len < Len(data) THEN -1 ELSE len]

\* RingBuffer.push(data): the buffer afterwards and the value returned.
push(rb, data) ==
  LET len == Len(data)
      available == rb.size - rb.count
  IN  IF len > rb.size
        THEN IF rb.allowOverwrite
               THEN [rb |-> [rb EXCEPT !.buffer = SubSeq(data, len - rb.size + 1, len),
                                       !.readPos = 0, !.writePos = 0, !.count = rb.size],
                     ret |-> len]
               ELSE [rb |-> rb, ret |-> -1]
      ELSE IF len > available /\ ~rb.allowOverwrite
        THEN [rb |-> rb, ret |-> -1]
      ELSE
        LET toDrop == IF len > available THEN len - available ELSE 0
            readPos == (rb.readPos + toDrop) % rb.size
            count == rb.count - toDrop
            firstChunk == Min(len, rb.size - rb.writePos)
            b1 == setAt(rb.buffer, SubSeq(data, 1, firstChunk), rb.writePos)
            b2 == IF firstChunk < len
                    THEN setAt(b1, SubSeq(data, firstChunk + 1, len), 0)
                    ELSE b1
        IN  [rb |-> [rb EXCEPT !.buffer = b2, !.readPos = readPos,
                               !.writePos = (rb.writePos + len) % rb.size,
                               !.count = count + len],
             ret |-> len]

\* [0x00] + PCM data
framed(data) == <<MSG_AUDIO>> \o data

\* The broadcast loop of onAudioData that never deletes a client.
deadClientsNone(clients, ready, failing) == {}

\* The clients onAudioData collects in `dead`: not OPEN, or send threw.
deadClients(clients, ready, failing) ==
  {w \in clients : ready[w] # "OPEN" \/ w \in failing}

HubInit ==
  /\ hubClients = {}
  /\ readyState = [w \in WsIds |-> "none"]
  /\ hubRecv = [w \in WsIds |-> <<>>]
  /\ ringBuffer = NewRingBuffer(HubBufferSize, TRUE)
  /\ recording = FALSE
  /\ fileStream = <<>>
  /\ hubEmitted = 0
  /\ hubLast = [op |-> "", data |-> <<>>, failed |-> {}]

\* addClient(ws) for a freshly accepted WebSocket.
HubAddClient(w) ==
  /\ readyState[w] = "none"
  /\ readyState' = [readyState EXCEPT ![w] = "OPEN"]
  /\ hubClients' = hubClients \cup {w}
  /\ hubRecv' = [hubRecv EXCEPT ![w] = <<>>]
  /\ hubLast' = [op |-> "add", data |-> <<>>, failed |-> {}]
  /\ UNCHANGED <<ringBuffer, recording, fileStream, hubEmitted>>
  /\ UNCHANGED <<slipVars, linkVars, tcpVars, cmdVars>>

\* The closing handshake starts: readyState leaves OPEN before "close" is emitted.
WsClosing(w) ==
  /\ readyState[w] = "OPEN"
  /\ readyState' = [readyState EXCEPT ![w] = "CLOSING"]
  /\ hubLast' = [op |-> "closing", data |-> <<>>, failed |-> {}]
  /\ UNCHANGED <<hubClients, hubRecv, ringBuffer, recording, fileStream, hubEmitted>>
  /\ UNCHANGED <<slipVars, linkVars, tcpVars, cmdVars>>

\* ws.on("error")
WsError(w) ==
  /\ readyState[w] = "OPEN"
  /\ readyState' = [readyState EXCEPT ![w] = "CLOSING"]
  /\ hubClients' = hubClients \ {w}
  /\ hubLast' = [op |-> "wsError", data |-> <<>>, failed |-> {}]
  /\ UNCHANGED <<hubRecv, ringBuffer, recording, fileStream, hubEmitted>>
  /\ UNCHANGED <<slipVars, linkVars, tcpVars, cmdVars>>

\* ws.on("close")
WsClose(w) ==
  /\ readyState[w] \in {"OPEN", "CLOSING"}
  /\ readyState' = [readyState EXCEPT ![w] = "none"]
  /\ hubClients' = hubClients \ {w}
  /\ hubLast' = [op |-> "wsClose", data |-> <<>>, failed |-> {}]
  /\ UNCHANGED <<hubRecv, ringBuffer, recording, fileStream, hubEmitted>>
  /\ UNCHANGED <<slipVars, linkVars, tcpVars, cmdVars>>

\* onAudioData(data); `failing` are the clients whose send throws.
onAudioData(data) ==
  /\ hubEmitted < MaxEmit
  /\ hubEmitted' = hubEmitted + 1
  /\ ringBuffer' = push(ringBuffer, data).rb
  /\ \E failing \in SUBSET {w \in hubClients : readyState[w] = "OPEN"} :
       /\ hubRecv' = [w \in WsIds |->
                        IF w \in hubClients /\ readyState[w] = "OPEN" /\ w \notin failing
                          THEN Append(hubRecv[w], framed(data))
                          ELSE hubRecv[w]]
       /\ hubClients' = hubClients \ deadClients(hubClients, readyState, failing)
       /\ hubLast' = [op |-> "audio", data |-> data, failed |-> failing]
  /\ fileStream' = IF recording THEN Append(fileStream, data) ELSE fileStream
  /\ UNCHANGED <<readyState, recording>>
  /\ UNCHANGED <<slipVars, linkVars, tcpVars, cmdVars>>

HubNext ==
  \/ \E w \in WsIds : HubAddClient(w)
  \/ \E w \in WsIds : WsClosing(w)
  \/ \E w \in WsIds : WsError(w)
  \/ \E w \in WsIds : WsClose(w)
  \/ \E data \in AudioChunks : onAudioData(data)

\* ============================================================= ring buffer
\* A RingBuffer on its own, under either overwrite policy.
available(rb) == rb.size - rb.count

\* The bytes a read of n bytes from the read index delivers.
readFrom(rb, toRead) ==
  LET firstChunk == Min(toRead, rb.size - rb.readPos)
      first == SubSeq(rb.buffer, rb.readPos + 1, rb.readPos + firstChunk)
  IN  IF firstChunk < toRead THEN first \o SubSeq(rb.buffer, 1, toRead - firstChunk) ELSE first

\* A RingBuffer.pop that stops at the end of the backing store.
popNoWrap(rb, n) ==
  LET toRead == Min(Min(n, rb.count), rb.size - rb.readPos)
  IN  IF toRead = 0 THEN [rb |-> rb, ret |-> 0, out |-> <<>>]
      ELSE [rb |-> [rb EXCEPT !.readPos = (rb.readPos + toRead) % rb.size,
                              !.count = rb.count - toRead],
            ret |-> toRead, out |-> SubSeq(rb.buffer, rb.readPos + 1, rb.readPos + toRead)]

\* RingBuffer.pop(output) with an output of n bytes: the buffer afterwards,
\* the value returned and the bytes written to the output.
pop(rb, n) ==
  LET toRead == Min(n, rb.count)
  IN  IF toRead = 0 THEN [rb |-> rb, ret |-> 0, out |-> <<>>]
      ELSE [rb |-> [rb EXCEPT !.readPos = (rb.readPos + toRead) % rb.size,
                              !.count = rb.count - toRead],
            ret |-> toRead, out |-> readFrom(rb, toRead)]

\* RingBuffer.peek(output)
peek(rb, n) ==
  LET toRead == Min(n, rb.count)
  IN  IF toRead = 0 THEN [rb |-> rb, ret |-> 0, out |-> <<>>]
      ELSE [rb |-> rb, ret |-> toRead, out |-> readFrom(rb, toRead)]

\* A RingBuffer.clear that leaves the write index where it is.
ringClearKeepsWrite(rb) == [rb EXCEPT !.readPos = 0, !.count = 0]

\* RingBuffer.clear()
ringClear(rb) == [rb EXCEPT !.readPos = 0, !.writePos = 0, !.count = 0]

\* Lengths of the data pushed and of the outputs popped into: one byte, two
\* bytes, the capacity, more than the capacity.
PushLens == {1, 2, RingCapacity + 1}
PopLens == {1, RingCapacity}

\* The producer numbers the bytes it pushes, so that order and loss show.
Stamped(from, len) == [i \in 1..len |-> from + i]

RingInit ==
  /\ ring \in {NewRingBuffer(RingCapacity, a) : a \in BOOLEAN}
  /\ ringOffered = 0
  /\ ringPushed = <<>>
  /\ ringPopped = <<>>
  /\ ringNoPop = TRUE
  /\ ringCleared = FALSE
  /\ ringLast = [op |-> "new", arg |-> 0, ret |-> 0, out |-> <<>>]
  /\ ringOps = 0

RingStep(rb, popped, noPop, cleared, last) ==
  /\ ringOps < MaxRingOps
  /\ ringOps' = ringOps + 1
  /\ ring' = rb
  /\ ringPopped' = popped
  /\ ringNoPop' = noPop
  /\ ringCleared' = cleared
  /\ ringLast' = last
  /\ UNCHANGED <<slipVars, linkVars, tcpVars, hubVars, parserVars, gridVars, deltaVars,
                 pipeVars, recVars, capVars, streamerVars, shutVars, ultVars, inputVars, clientVars>>

RingPush ==
  \E len \in PushLens :
    LET data == Stamped(ringOffered, len)
        r == push(ring, data)
    IN  /\ ringOffered' = ringOffered + len
        /\ ringPushed' = IF r.ret = -1 THEN ringPushed ELSE ringPushed \o data
        /\ RingStep(r.rb, ringPopped, ringNoPop, ringCleared,
                    [op |-> "push", arg |-> len, ret |-> r.ret, out |-> <<>>])

RingPop ==
  \E n \in PopLens :
    LET r == pop(ring, n)
    IN  /\ UNCHANGED <<ringOffered, ringPushed>>
        /\ RingStep(r.rb, ringPopped \o r.out, FALSE, ringCleared,
                    [op |-> "pop", arg |-> n, ret |-> r.ret, out |-> r.out])

RingPeek ==
  \E n \in PopLens :
    LET r == peek(ring, n)
    IN  /\ UNCHANGED <<ringOffered, ringPushed>>
        /\ RingStep(r.rb, ringPopped, ringNoPop, ringCleared,
                    [op |-> "peek", arg |-> n, ret |-> r.ret, out |-> r.out])

\* clear(): the bytes pushed before it no longer count as stored.
RingClear ==
  /\ ringPushed' = <<>>
  /\ UNCHANGED ringOffered
  /\ RingStep(ringClear(ring), ringPopped, TRUE, TRUE,
              [op |-> "clear", arg |-> 0, ret |-> 0, out |-> <<>>])

RingNext == RingPush \/ RingPop \/ RingPeek \/ RingClear

\* ========================================================== file recording
\* AudioHub.startRecording / stopRecording. Both are async: stopRecording
\* suspends until the end() callback of the stream runs, and other calls run
\* meanwhile. A suspended call is the record of the stream it ended and of
\* whether it is the stopRecording that a startRecording awaits. An await of
\* a stopRecording that returned without suspending continues at once.
NoStream == 0
SinkIds == 1..MaxSinks

\* createWriteStream(filePath): the next stream never created before.
createWriteStream == CHOOSE id \in SinkIds : sinks[id] = "none" /\ \A j \in SinkIds : j < id => sinks[j] # "none"

\* startRecording after its await: lines 152-153.
openNew(st) ==
  [st EXCEPT !.sinks[createWriteStream] = "open",
             !.fileStream = createWriteStream,
             !.recording = TRUE]

\* stopRecording up to its await: lines 160-170.
stopSync(st, thenStart) ==
  IF ~st.recording THEN st
  ELSE IF st.fileStream # NoStream
    THEN [st EXCEPT !.recording = FALSE,
                    !.sinks[st.fileStream] = "ending",
                    !.pending = @ \cup {[stream |-> st.fileStream, thenStart |-> thenStart]}]
  ELSE [st EXCEPT !.recording = FALSE]

RecState ==
  [recording |-> hubRecording, fileStream |-> hubFileStream, sinks |-> sinks,
   pending |-> pendingEnds]

RecCommit(st, op) ==
  /\ hubRecording' = st.recording
  /\ hubFileStream' = st.fileStream
  /\ sinks' = st.sinks
  /\ pendingEnds' = st.pending
  /\ recLast' = op
  /\ UNCHANGED <<slipVars, linkVars, tcpVars, hubVars, parserVars, gridVars, deltaVars,
                 pipeVars, ringVars, capVars, streamerVars, shutVars, ultVars, inputVars, clientVars>>

RecInit ==
  /\ hubRecording = FALSE
  /\ hubFileStream = NoStream
  /\ sinks = [id \in SinkIds |-> "none"]
  /\ pendingEnds = {}
  /\ recLast = "new"

\* A call of startRecording(filePath), up to its await or to its end.
StartRecording ==
  /\ \E id \in SinkIds : sinks[id] = "none"
  /\ LET st == stopSync(RecState, TRUE)
     IN  IF hubRecording /\ st.pending # pendingEnds
           THEN RecCommit(st, "startRecording")
           ELSE RecCommit(openNew(st), "startRecording")

\* A call of stopRecording(), up to its await or to its end.
StopRecording ==
  RecCommit(stopSync(RecState, FALSE), "stopRecording")

\* The end() callback of a stream without error: the stopRecording that ended
\* it sets fileStream to null; the startRecording awaiting it goes on.
EndCallback ==
  \E p \in pendingEnds :
    LET st == [RecState EXCEPT !.sinks[p.stream] = "closed",
                               !.fileStream = NoStream,
                               !.pending = @ \ {p}]
    IN  /\ p.thenStart => \E id \in SinkIds : sinks[id] = "none"
        /\ RecCommit(IF p.thenStart THEN openNew(st) ELSE st, "end")

\* The end() callback with an error: stopRecording rejects, and so does the
\* startRecording awaiting it.
EndCallbackError ==
  \E p \in pendingEnds :
    RecCommit([RecState EXCEPT !.sinks[p.stream] = "closed", !.pending = @ \ {p}],
              "endError")

RecNext == StartRecording \/ StopRecording \/ EndCallback \/ EndCallbackError

\* ============================================================ audio capture
\* The three capture classes, each with its child process: AlsaCapture (the
\* one the streamer uses), NativeLibusbCapture and UsbAudioCapture. The
\* record of a capture holds its fields and the world of its processes:
\*   kind      the class
\*   running   this.running
\*   process   this.process, NoProcess for null
\*   procs     each process: "none", "running" or "exited"
\*   term      processes sent SIGTERM;  kill: processes sent SIGKILL
\*   waiting   the process a suspended stop() waits for, NoProcess if none
\*   age       per process: 0 no stop yet, 1 stop() called, 2 more than one
\*             second since that stop()
\*   closeQ    close events emitted and not yet handled: <<process, code>>
\*   errors    calls of the onError callback
\* A process that ignores SIGTERM simply does not exit.
NoProcess == 0
Pids == 1..MaxProcs
CaptureKinds == {"alsa", "native", "usb"}

NewCapture(kind) ==
  [kind |-> kind, running |-> FALSE, process |-> NoProcess,
   procs |-> [pid \in Pids |-> "none"], term |-> {}, kill |-> {},
   waiting |-> NoProcess, age |-> [pid \in Pids |-> 0], closeQ |-> {}, errors |-> 0]

canSpawn(c) == \E pid \in Pids : c.procs[pid] = "none"
spawn(c) == CHOOSE pid \in Pids : c.procs[pid] = "none" /\ \A q \in Pids : q < pid => c.procs[q] # "none"

\* start() once the device or the tool was found: spawn, running = true.
captureStart(c) ==
  IF c.running THEN c
  ELSE [c EXCEPT !.procs[spawn(c)] = "running", !.process = spawn(c), !.running = TRUE]

\* stop() up to its await (AlsaCapture.stop has none).
captureStop(c) ==
  IF ~c.running \/ c.process = NoProcess THEN c
  ELSE IF c.kind = "alsa"
    THEN [c EXCEPT !.term = @ \cup {c.process}, !.age[c.process] = 1,
                   !.process = NoProcess, !.running = FALSE]
  ELSE [c EXCEPT !.term = @ \cup {c.process}, !.age[c.process] = 1,
                 !.running = FALSE, !.waiting = c.process]

\* The "close" listeners of process pid: the one start() installed and, if a
\* stop() waits for pid, the one that resumes it (this.process = null).
onClose(c, pid, code) ==
  LET failed == code = "failed"
      c1 == IF c.kind = "alsa"
              THEN [c EXCEPT !.running = FALSE]
            ELSE IF c.kind = "native"
              THEN [c EXCEPT !.errors = IF failed /\ c.running THEN @ + 1 ELSE @,
                             !.running = FALSE, !.process = NoProcess]
            ELSE [c EXCEPT !.errors = IF failed THEN @ + 1 ELSE @,
                           !.running = FALSE, !.process = NoProcess]
  IN  IF c.waiting = pid
        THEN [c1 EXCEPT !.waiting = NoProcess, !.process = NoProcess]
        ELSE c1

\* The "error" listener of a process that could not be spawned.
onProcessError(c, pid) ==
  [c EXCEPT !.procs[pid] = "exited", !.errors = @ + 1, !.running = FALSE]

\* The one-second timer of a suspended stop(): NativeLibusbCapture kills
\* this.process if there is one; both resume the stop().
onStopTimer(c) ==
  LET victim == IF c.kind = "native" THEN c.process ELSE NoProcess
      c1 == IF victim # NoProcess
              THEN [c EXCEPT !.kill = @ \cup {victim},
                             !.procs[victim] = "exited",
                             !.closeQ = IF c.procs[victim] = "running"
                                          THEN @ \cup {<<victim, "signal">>} ELSE @]
              ELSE c
  IN  [c1 EXCEPT !.age[c.waiting] = 2, !.waiting = NoProcess, !.process = NoProcess]

CaptureInit ==
  /\ cap \in {NewCapture(kind) : kind \in CaptureKinds}
  /\ capLast = "new"

CaptureCommit(c, op) ==
  /\ cap' = c
  /\ capLast' = op
  /\ UNCHANGED <<slipVars, linkVars, tcpVars, hubVars, parserVars, gridVars, deltaVars,
                 pipeVars, ringVars, recVars, streamerVars, shutVars, ultVars, inputVars, clientVars>>

\* capture.start(); the callers await a stop() before they start again.
CaptureStart ==
  /\ ~cap.running /\ cap.waiting = NoProcess /\ canSpawn(cap)
  /\ CaptureCommit(captureStart(cap), "start")

\* capture.stop()
CaptureStop ==
  /\ cap.waiting = NoProcess
  /\ CaptureCommit(captureStop(cap), "stop")

\* A process ends: by itself with a failure, or on SIGTERM.
ProcessExits ==
  \E pid \in Pids, code \in {"failed", "signal"} :
    /\ cap.procs[pid] = "running"
    /\ code = "signal" => pid \in cap.term
    /\ CaptureCommit([cap EXCEPT !.procs[pid] = "exited", !.closeQ = @ \cup {<<pid, code>>}],
                     "exit")

\* The "close" event of a process is handled.
ProcessClose ==
  \E e \in cap.closeQ :
    CaptureCommit(onClose([cap EXCEPT !.closeQ = @ \ {e}], e[1], e[2]), "close")

\* The process could not be spawned: its "error" event is handled.
ProcessError ==
  \E pid \in Pids :
    /\ cap.procs[pid] = "running" /\ cap.process = pid /\ pid \notin cap.term
    /\ CaptureCommit(onProcessError(cap, pid), "error")

\* One second after stop(): the timer of a suspended stop() fires.
StopTimer ==
  /\ cap.waiting # NoProcess
  /\ CaptureCommit(onStopTimer(cap), "stopTimer")

\* One second after a stop() that is no longer suspended.
SecondPasses ==
  \E pid \in Pids :
    /\ cap.age[pid] = 1 /\ cap.waiting # pid
    /\ CaptureCommit([cap EXCEPT !.age[pid] = 2], "second")

CaptureNext ==
  \/ CaptureStart \/ CaptureStop \/ ProcessExits \/ ProcessClose \/ ProcessError
  \/ StopTimer \/ SecondPasses

\* ============================================================ audio streamer
\* UsbAudioStreamer with its AlsaCapture, the audio clients of its hub, and
\* the onConnect callback of the serial link. The record of the streamer:
\*   running, startPromise   the fields (startPromise: TRUE when not null)
\*   catching     an addClient() waits on startPromise to broadcast a failure
\*   clients      hub.clientCount
\*   external     an onAudioData callback feeds the TCP stream (autoStart)
\*   timers       pending 1500 ms timers of onConnect
\*   waits        restart() calls in their 1500 ms wait
\*   control      control messages broadcast to at least one client
\*   attempts     calls of capture.start()
\*   failures     failures of the capture process handled with a client present
\*   reconnects, attemptsAtConnect, startedAtConnect
\*                onConnect calls, and attempts and running at the last one
NewStreamer(external) ==
  [running |-> FALSE, startPromise |-> external, catching |-> FALSE, clients |-> 0,
   external |-> external, timers |-> 0, waits |-> 0, control |-> 0,
   attempts |-> IF external THEN 1 ELSE 0, failures |-> 0,
   reconnects |-> 0, attemptsAtConnect |-> 0, startedAtConnect |-> FALSE]

\* hub.broadcastError(message): a framed control message to the clients.
broadcastError(st) == [st EXCEPT !.control = IF st.clients > 0 THEN @ + 1 ELSE @]

\* start() up to its await of capture.start().
streamerStart(st, catch) ==
  IF st.running THEN st
  ELSE IF st.startPromise THEN [st EXCEPT !.catching = @ \/ catch]
  ELSE [st EXCEPT !.startPromise = TRUE, !.catching = catch, !.attempts = @ + 1]

StreamerInit ==
  /\ streamer \in {NewStreamer(external) : external \in BOOLEAN}
  /\ streamerLast = "new"

StreamerCommit(st, c, op) ==
  /\ streamer' = st
  /\ cap' = c
  /\ streamerLast' = op
  /\ capLast' = capLast
  /\ UNCHANGED <<slipVars, linkVars, tcpVars, hubVars, parserVars, gridVars, deltaVars,
                 pipeVars, ringVars, recVars, shutVars, ultVars, inputVars, clientVars>>

\* addClient(ws): the capture is started on the first client if the streamer
\* is not running.
StreamerAddClient ==
  /\ streamer.clients < MaxAudioClients
  /\ streamer.attempts < MaxAttempts
  /\ LET st == [streamer EXCEPT !.clients = @ + 1]
     IN  StreamerCommit(IF st.clients = 1 /\ ~st.running THEN streamerStart(st, TRUE) ELSE st,
                        cap, "addClient")

\* The "close" event of an audio client.
StreamerClientClose ==
  /\ streamer.clients > 0
  /\ StreamerCommit([streamer EXCEPT !.clients = @ - 1], cap, "clientClose")

\* capture.start() found the device and spawned the process.
StartResolves ==
  /\ streamer.startPromise
  /\ cap.running \/ canSpawn(cap)
  /\ StreamerCommit([streamer EXCEPT !.running = TRUE, !.startPromise = FALSE,
                                     !.catching = FALSE],
                    captureStart(cap), "started")

\* capture.start() found no device and threw.
StartFails ==
  /\ streamer.startPromise
  /\ ~cap.running
  /\ LET st == [streamer EXCEPT !.startPromise = FALSE, !.catching = FALSE]
     IN  StreamerCommit(IF streamer.catching THEN broadcastError(st) ELSE st, cap,
                        "startFailed")

\* onConnect of the serial link: a timer of 1500 ms is set.
SerialConnect ==
  /\ streamer.reconnects < MaxReconnects
  /\ StreamerCommit([streamer EXCEPT !.reconnects = @ + 1, !.timers = @ + 1,
                                     !.attemptsAtConnect = streamer.attempts,
                                     !.startedAtConnect = streamer.running],
                    cap, "onConnect")

\* The timer of onConnect: with an audio client, restartAudio() runs
\* restart() up to its wait: stop() stops the capture if running is set.
ConnectTimer ==
  /\ streamer.timers > 0
  /\ LET st == [streamer EXCEPT !.timers = @ - 1]
     IN  IF st.clients > 0
           THEN StreamerCommit([st EXCEPT !.running = FALSE, !.waits = @ + 1],
                               IF st.running THEN captureStop(cap) ELSE cap, "restart")
           ELSE StreamerCommit(st, cap, "noRestart")

\* restart() after its wait: start() if the hub has a client.
RestartResumes ==
  /\ streamer.waits > 0
  /\ LET st == [streamer EXCEPT !.waits = @ - 1]
     IN  StreamerCommit(IF st.clients > 0 THEN streamerStart(st, FALSE) ELSE st, cap,
                        "restartResumed")

\* After an event of the capture process: onError broadcasts the message.
afterCapture(st, c, failed) ==
  LET st1 == IF c.errors > cap.errors THEN broadcastError(st) ELSE st
  IN  [st1 EXCEPT !.failures = IF failed /\ st.clients > 0 THEN @ + 1 ELSE @]

\* The capture process fails, or ends on SIGTERM.
StreamerProcessExits ==
  \E pid \in Pids, code \in {"failed", "signal"} :
    /\ cap.procs[pid] = "running"
    /\ code = "signal" => pid \in cap.term
    /\ StreamerCommit(streamer,
                      [cap EXCEPT !.procs[pid] = "exited", !.closeQ = @ \cup {<<pid, code>>}],
                      "exit")

StreamerProcessClose ==
  \E e \in cap.closeQ :
    LET c == onClose([cap EXCEPT !.closeQ = @ \ {e}], e[1], e[2])
    IN  StreamerCommit(afterCapture(streamer, c, e[2] = "failed"), c, "close")

StreamerProcessError ==
  \E pid \in Pids :
    /\ cap.procs[pid] = "running" /\ cap.process = pid /\ pid \notin cap.term
    /\ LET c == onProcessError(cap, pid)
       IN  StreamerCommit(afterCapture(streamer, c, TRUE), c, "error")

StreamerNext ==
  \/ StreamerAddClient \/ StreamerClientClose \/ StartResolves \/ StartFails
  \/ SerialConnect \/ ConnectTimer \/ RestartResumes
  \/ StreamerProcessExits \/ StreamerProcessClose \/ StreamerProcessError

\* ================================================================= shutdown
\* shutdown() of the entry point, with what it acts on. The record:
\*   pc          where shutdown() is: "serving" before the signal, then
\*               "awaitTcp", "awaitSentinel", "awaitClose", "awaitReturn",
\*               "exited", or "rejected" when disconnect() threw
\*   interval    M8Server.jpegBroadcastInterval is set
\*   timer       M8Server.screenBroadcastTimer is set
\*   running     UsbAudioStreamer.running
\*   capture     the capture process runs
\*   recording   AudioHub.recording
\*   stopAwait   UsbAudioStreamer.stop() is at `await this.capture.stop()`
\*   ending      UsbAudioStreamer.stop() is at `await this.hub.stopRecording()`
\*   tcp         a TcpProxy was constructed and started
\*   batch       the TcpProxy has packets queued for its next flush
\*   listener    the TCP server listens
\*   connected   the serial link is open and connected
\*   wasConnected, wasRunning, wasRecording
\*               connected, running and recording, at the first signal
\*   pc2         where a second call of shutdown() is, "idle" before it
\*   http        the HTTP and WebSocket servers of M8Server are not null
\*   lost        the serial port was lost during a disconnect()
\*   log         the steps taken, in order
NewShutdown(timer, running, capture, isRecording, tcp, batch, isConnected) ==
  [pc |-> "serving", interval |-> TRUE, timer |-> timer, running |-> running,
   capture |-> capture, recording |-> isRecording, stopAwait |-> FALSE, ending |-> FALSE,
   tcp |-> tcp, batch |-> batch, listener |-> tcp, connected |-> isConnected,
   wasConnected |-> isConnected, wasRunning |-> running, wasRecording |-> isRecording,
   pc2 |-> "idle", http |-> TRUE, lost |-> FALSE, log |-> <<>>]

\* The server before any audio, recording, TCP client or serial device.
IdleServer == NewShutdown(FALSE, FALSE, FALSE, FALSE, FALSE, FALSE, FALSE)

ShutdownInit ==
  shut \in {NewShutdown(timer, running, capture, isRecording, tcp, batch, isConnected) :
              timer \in BOOLEAN, running \in BOOLEAN, capture \in BOOLEAN,
              isRecording \in BOOLEAN, tcp \in BOOLEAN, batch \in BOOLEAN,
              isConnected \in BOOLEAN}
  /\ (shut.capture => shut.running)
  /\ (shut.batch => shut.tcp)

logStep(sh, step) == [sh EXCEPT !.log = Append(@, step)]

\* M8Server.stop(): the interval is cleared, audioStreamer.stop() is called
\* and runs up to its first await, the WebSocket and HTTP servers are closed.
serverStop(sh) ==
  LET a == IF sh.interval THEN logStep([sh EXCEPT !.interval = FALSE], "screenInterval")
           ELSE sh
      b == IF ~a.running THEN a
           ELSE [(IF a.capture THEN logStep(a, "capture") ELSE a)
                   EXCEPT !.capture = FALSE, !.stopAwait = TRUE]
  IN  IF b.http THEN logStep([b EXCEPT !.http = FALSE], "httpClose") ELSE b

\* A TcpProxy.stop() that gives up when its server no longer listens.
proxyStopOnce(sh) ==
  LET a == logStep([sh EXCEPT !.batch = FALSE], "tcpFlush")
  IN  IF ~a.listener THEN [a EXCEPT !.pc = "rejected"]
      ELSE logStep([a EXCEPT !.pc = "awaitTcp"], "tcpClose")

\* TcpProxy.stop() up to the close of the server: the batch timer is cleared,
\* the batch is flushed, the sockets are destroyed. this.server is set by
\* start() and never cleared; close() calls back on a closed server too.
proxyStop(sh) ==
  LET a == logStep([sh EXCEPT !.batch = FALSE], "tcpFlush")
  IN  IF ~a.tcp THEN a ELSE logStep([a EXCEPT !.pc = "awaitTcp"], "tcpClose")

\* connection.disconnect() up to its first await, or to its return.
disconnect(sh) ==
  IF ~sh.connected THEN [sh EXCEPT !.pc = "awaitReturn"]
  ELSE logStep([sh EXCEPT !.pc = "awaitSentinel"], "sentinel")

ShutCommit(sh) ==
  /\ shut' = sh
  /\ UNCHANGED <<slipVars, linkVars, tcpVars, hubVars, parserVars, gridVars, deltaVars,
                 pipeVars, ringVars, recVars, capVars, streamerVars, ultVars, inputVars,
                 clientVars>>

\* shutdown() up to its first await.
shutdownCall(sh) ==
  LET a == serverStop(sh)
      b == IF a.tcp THEN proxyStop(a) ELSE a
  IN  IF b.pc \in {"awaitTcp", "rejected"} THEN b ELSE disconnect(b)

\* shutdown() after `await tcpProxy.stop()`: connection.disconnect().
afterProxyStop(sh) == disconnect([sh EXCEPT !.listener = FALSE])

\* disconnect() after `await this.sendRaw([0x44])`, whose error is ignored:
\* serial.close(), or a TypeError if the port was lost meanwhile.
afterSentinel(sh, portLost) ==
  IF portLost THEN [sh EXCEPT !.pc = "rejected", !.connected = FALSE, !.lost = TRUE]
  ELSE logStep([sh EXCEPT !.pc = "awaitClose"], "serialClose")

\* disconnect() resolves, by the callback of serial.close() or by its early
\* return; shutdown() calls process.exit(0).
afterDisconnect(sh) == logStep([sh EXCEPT !.pc = "exited", !.connected = FALSE], "exit")

\* process.exit(0) was called.
Exited(sh) == "exited" \in {sh.pc, sh.pc2}

\* SIGINT or SIGTERM.
ShutdownSignal ==
  /\ shut.pc = "serving"
  /\ ShutCommit(shutdownCall(shut))

\* UsbAudioStreamer.stop() after `await this.capture.stop()`: it calls
\* hub.stopRecording(). A continuation queued by server.stop() runs before
\* the ones queued later and before any callback of the event loop.
StreamerStopResumes ==
  /\ shut.stopAwait
  /\ LET a == [shut EXCEPT !.stopAwait = FALSE, !.ending = TRUE]
     IN  ShutCommit(IF a.recording THEN logStep([a EXCEPT !.recording = FALSE], "recording")
                    ELSE a)

\* UsbAudioStreamer.stop() after `await this.hub.stopRecording()`.
StreamerStopEnds ==
  /\ shut.ending /\ ~Exited(shut)
  /\ ShutCommit([shut EXCEPT !.ending = FALSE, !.running = FALSE])

\* The callback of server.close() of the TcpProxy.
TcpClosed ==
  /\ shut.pc = "awaitTcp" /\ ~shut.stopAwait /\ ~Exited(shut)
  /\ ShutCommit(afterProxyStop(shut))

SentinelDone ==
  /\ shut.pc = "awaitSentinel" /\ ~shut.stopAwait /\ ~Exited(shut)
  /\ \E portLost \in BOOLEAN : ShutCommit(afterSentinel(shut, portLost))

ShutdownExits ==
  /\ shut.pc \in {"awaitClose", "awaitReturn"} /\ ~shut.stopAwait /\ ~Exited(shut)
  /\ ShutCommit(afterDisconnect(shut))

\* The timeout of scheduleScreenBroadcast fires.
ScreenTimerFires ==
  /\ shut.timer /\ ~Exited(shut)
  /\ ShutCommit(logStep([shut EXCEPT !.timer = FALSE], "screenBroadcast"))

ShutdownNext ==
  \/ ShutdownSignal \/ StreamerStopResumes \/ StreamerStopEnds \/ TcpClosed
  \/ SentinelDone \/ ShutdownExits \/ ScreenTimerFires

\* The second call of shutdown() runs the same code from its own position.
Other(sh) == [sh EXCEPT !.pc = sh.pc2, !.pc2 = sh.pc]

\* A second SIGINT or SIGTERM while the first shutdown() is in progress.
SecondSignal ==
  /\ shut.pc \notin {"serving", "exited"} /\ shut.pc2 = "idle" /\ ~shut.stopAwait
  /\ ShutCommit(Other(shutdownCall(Other(shut))))

SecondTcpClosed ==
  /\ shut.pc2 = "awaitTcp" /\ ~shut.stopAwait /\ ~Exited(shut)
  /\ ShutCommit(Other(afterProxyStop(Other(shut))))

SecondSentinelDone ==
  /\ shut.pc2 = "awaitSentinel" /\ ~shut.stopAwait /\ ~Exited(shut)
  /\ \E portLost \in BOOLEAN : ShutCommit(Other(afterSentinel(Other(shut), portLost)))

SecondExits ==
  /\ shut.pc2 \in {"awaitClose", "awaitReturn"} /\ ~shut.stopAwait /\ ~Exited(shut)
  /\ ShutCommit(Other(afterDisconnect(Other(shut))))

ShutdownTwiceNext ==
  \/ ShutdownSignal \/ StreamerStopResumes \/ StreamerStopEnds \/ TcpClosed
  \/ SentinelDone \/ ShutdownExits \/ ScreenTimerFires
  \/ SecondSignal \/ SecondTcpClosed \/ SecondSentinelDone \/ SecondExits

\* ============================================================= USB recovery
\* ultimateReset(): the methods of its list, in the order of the list.
UltimateMethods ==
  <<"resetLevel1", "resetLevel2", "resetLevel3", "resetLevel6_RuntimePM",
    "resetAllControllers", "resetLevel4_D3cold", "resetLevel5_MultiCycle">>

\* The record of a call: next is the index of the method awaited, tried the
\* methods called so far, outcomes what each one that did not succeed did,
\* result "" while the call has not returned.
UltimateInit ==
  ult = [pc |-> "idle", next |-> 1, tried |-> <<>>, outcomes |-> <<>>, result |-> ""]

UltCommit(u) ==
  /\ ult' = u
  /\ UNCHANGED <<slipVars, linkVars, tcpVars, hubVars, parserVars, gridVars, deltaVars,
                 pipeVars, ringVars, recVars, capVars, streamerVars, shutVars, inputVars,
                 clientVars>>

\* The loop of ultimateReset() at the method of index i: it is called, or the
\* list is exhausted and the failure is returned.
tryMethod(u, i) ==
  IF i > Len(UltimateMethods)
    THEN [u EXCEPT !.pc = "done", !.result = "failed"]
    ELSE [u EXCEPT !.pc = "await", !.next = i, !.tried = Append(@, UltimateMethods[i])]

\* ultimateReset() is called.
UltimateCall ==
  /\ ult.pc = "idle"
  /\ UltCommit(tryMethod(ult, 1))

\* The method awaited reports success with the device found.
MethodSucceeds ==
  /\ ult.pc = "await"
  /\ UltCommit([ult EXCEPT !.pc = "done", !.result = UltimateMethods[ult.next]])

\* The method awaited reports a failure: the next one is tried.
MethodFails ==
  /\ ult.pc = "await"
  /\ UltCommit(tryMethod([ult EXCEPT !.outcomes = Append(@, "failed")], ult.next + 1))

\* The method awaited throws: the error is logged and the next one is tried.
MethodThrows ==
  /\ ult.pc = "await"
  /\ UltCommit(tryMethod([ult EXCEPT !.outcomes = Append(@, "threw")], ult.next + 1))

UltimateNext == UltimateCall \/ MethodSucceeds \/ MethodFails \/ MethodThrows

\* ================================================================ key input
\* The input routes (REST) and handleWsMessage (control WebSocket) with the
\* writes their sendKeys calls make on the serial link.
KEY_MAP ==
  [left |-> 128, up |-> 64, down |-> 32, right |-> 4, shift |-> 16, start |-> 8,
   opt |-> 2, edit |-> 1]

KeyNames == DOMAIN KEY_MAP

\* `key in KEY_MAP` also holds for the members every object inherits.
InheritedNames == {"constructor"}

isValidKey(key) == key \in KeyNames \cup InheritedNames

\* KEY_MAP[key] ?? 0; for an inherited member it is a function, which the
\* Uint8Array of sendKeys stores as 0.
keyToBitmask(key) == IF key \in KeyNames THEN KEY_MAP[key] ELSE 0

Bits(n) == {i \in 0..7 : (n \div (2 ^ i)) % 2 = 1}

RECURSIVE maskOf(_)
maskOf(bits) ==
  IF bits = {} THEN 0
  ELSE LET i == CHOOSE b \in bits : TRUE IN (2 ^ i) + maskOf(bits \ {i})

\* a | b on button masks.
bitOr(a, b) == maskOf(Bits(a) \cup Bits(b))

KeyStep(bitmask, duration) == [bitmask |-> bitmask, duration |-> duration]

\* A press that releases the key before it presses it.
pressKeyReleasesFirst(key) == <<KeyStep(0, 50), KeyStep(keyToBitmask(key), 0)>>

\* pressKey(key): sendKeys(bitmask), delay(50), sendKeys(0).
pressKey(key) == <<KeyStep(keyToBitmask(key), 50), KeyStep(0, 0)>>

\* createCombo(hold, press) with holdMs = 50, as pressCombo runs it.
createCombo(hold, press) ==
  <<KeyStep(keyToBitmask(hold), 20),
    KeyStep(bitOr(keyToBitmask(hold), keyToBitmask(press)), 50),
    KeyStep(keyToBitmask(hold), 20),
    KeyStep(0, 0)>>

\* postRaw after its validation: sendKeys(bitmask), and with holdMs > 0 a
\* delay and, unless release is false, sendKeys(0).
rawSteps(q) ==
  IF q.holdMs > 0 /\ q.release THEN <<KeyStep(q.bitmask, q.holdMs), KeyStep(0, 0)>>
  ELSE <<KeyStep(q.bitmask, q.holdMs)>>

\* A request: origin "rest" or "ws"; route "key", "raw" or "keys"; json is
\* FALSE for a body or message that is not JSON; isNumber is typeof bitmask.
Request(origin, route, key, json, isNumber, bitmask, holdMs, release, hold, press) ==
  [origin |-> origin, route |-> route, key |-> key, json |-> json, isNumber |-> isNumber,
   bitmask |-> bitmask, holdMs |-> holdMs, release |-> release, hold |-> hold,
   press |-> press]

KeyRequest(origin, key) == Request(origin, "key", key, TRUE, FALSE, 0, 0, TRUE, "", "")
RawRequest(isNumber, bitmask, holdMs, release) ==
  Request("rest", "raw", "", TRUE, isNumber, bitmask, holdMs, release, "", "")
KeysRequest(origin, hold, press) ==
  Request(origin, "keys", "", TRUE, FALSE, 0, 0, TRUE, hold, press)
NotJson(origin, route) == Request(origin, route, "", FALSE, FALSE, 0, 0, TRUE, "", "")

RestRequests ==
  {KeyRequest("rest", key) : key \in KeyNames \cup {"bogus", "constructor"}}
  \cup {RawRequest(TRUE, 64, 0, TRUE), RawRequest(TRUE, 64, 50, TRUE),
        RawRequest(TRUE, 64, 50, FALSE), RawRequest(TRUE, 300, 0, TRUE),
        RawRequest(TRUE, 0 - 1, 0, TRUE), RawRequest(FALSE, 0, 0, TRUE)}
  \cup {KeysRequest("rest", "shift", "up"), KeysRequest("rest", "", "edit"),
        KeysRequest("rest", "bogus", "up"), KeysRequest("rest", "", "bogus"),
        KeysRequest("rest", "", "")}
  \cup {NotJson("rest", "raw"), NotJson("rest", "keys")}

WsMessages ==
  {KeyRequest("ws", "up"), KeyRequest("ws", "bogus"), KeysRequest("ws", "shift", "edit"),
   KeysRequest("ws", "", "left"), NotJson("ws", "key")}

RequestIds == 1..MaxRequests

NoRequest == Request("", "", "", TRUE, FALSE, 0, 0, TRUE, "", "")

\* A slot: pc is "none", "body" (parseBody awaited), "drain" (sendKeys
\* awaited), "wait" (delay awaited) or "done"; steps are the key states still
\* to send; wrote is what the request has written and waited for so far;
\* status is the HTTP status of the answer, 0 when there is none.
InputInit ==
  input = [reqs |-> [id \in RequestIds |->
                       [q |-> NoRequest, pc |-> "none", steps |-> <<>>, wrote |-> <<>>,
                        status |-> 0]],
           serialOut |-> <<>>]

InputCommit(st) ==
  /\ input' = st
  /\ UNCHANGED <<slipVars, linkVars, tcpVars, hubVars, parserVars, gridVars, deltaVars,
                 pipeVars, ringVars, recVars, capVars, streamerVars, shutVars, ultVars,
                 clientVars>>

Written(bytes) == [bytes |-> bytes, wait |-> 0]
Waited(ms) == [bytes |-> <<>>, wait |-> ms]

\* jsonResponse(res, data, status).
jsonResponse(st, id, status) ==
  [st EXCEPT !.reqs[id].pc = "done", !.reqs[id].status = status, !.reqs[id].steps = <<>>]

\* The handler throws: handleRequest answers 500, handleWsMessage logs.
thrown(st, id) ==
  jsonResponse(st, id, IF st.reqs[id].q.origin = "rest" THEN 500 ELSE 0)

\* sendKeys(bitmask) of the first step left: sendRaw throws when the link is
\* not connected, else it writes [0x43, bitmask].
sendKeys(st, id, linkUp) ==
  LET bytes == <<KEY_COMMAND, Head(st.reqs[id].steps).bitmask>>
  IN  IF ~linkUp THEN thrown(st, id)
      ELSE [st EXCEPT !.serialOut = Append(@, [req |-> id, bytes |-> bytes]),
                      !.reqs[id].wrote = Append(@, Written(bytes)),
                      !.reqs[id].pc = "drain"]

\* The steps of a request whose input was accepted, <<>> if it was not.
stepsOf(q) ==
  CASE q.route = "key" -> IF isValidKey(q.key) THEN pressKey(q.key) ELSE <<>>
    [] q.route = "raw" ->
         IF q.isNumber /\ q.bitmask >= 0 /\ q.bitmask <= 255 THEN rawSteps(q) ELSE <<>>
    [] q.route = "keys" ->
         IF q.press # "" /\ isValidKey(q.press)
           THEN IF q.hold # "" /\ isValidKey(q.hold) THEN createCombo(q.hold, q.press)
                ELSE pressKey(q.press)
           ELSE <<>>
    [] OTHER -> <<>>

\* postKey, postRaw and postKeys from their validation on, and the key and
\* keys cases of handleWsMessage.
handleInput(st, id, linkUp) ==
  LET q == st.reqs[id].q
      steps == stepsOf(q)
  IN  IF steps = <<>>
        THEN jsonResponse(st, id, IF q.origin = "rest" THEN 400 ELSE 0)
        ELSE sendKeys([st EXCEPT !.reqs[id].steps = steps], id, linkUp)

\* After a step: the next sendKeys, or the answer.
nextStep(st, id, linkUp) ==
  LET rest == Tail(st.reqs[id].steps)
      a == [st EXCEPT !.reqs[id].steps = rest]
  IN  IF rest = <<>>
        THEN jsonResponse(a, id, IF a.reqs[id].q.origin = "rest" THEN 200 ELSE 0)
        ELSE sendKeys(a, id, linkUp)

\* handleRequest -> handleApi for an input route, with a request of Q.
RestRequestOf(id, Q) ==
  /\ input.reqs[id].pc = "none"
  /\ \E q \in Q, linkUp \in BOOLEAN :
       LET st == [input EXCEPT !.reqs[id].q = q]
       IN  InputCommit(IF q.route = "key" THEN handleInput(st, id, linkUp)
                       ELSE [st EXCEPT !.reqs[id].pc = "body"])

\* parseBody resolves, or rejects for a body that is not JSON.
BodyParsed(id) ==
  /\ input.reqs[id].pc = "body"
  /\ \E linkUp \in BOOLEAN :
       InputCommit(IF input.reqs[id].q.json THEN handleInput(input, id, linkUp)
                   ELSE thrown(input, id))

\* handleWsMessage(ws, message), with a message of Q.
WsMessageOf(id, Q) ==
  /\ input.reqs[id].pc = "none"
  /\ \E q \in Q, linkUp \in BOOLEAN :
       LET st == [input EXCEPT !.reqs[id].q = q]
       IN  InputCommit(IF q.json THEN handleInput(st, id, linkUp) ELSE thrown(st, id))

\* The write and its drain complete, or one of them fails.
WriteDone(id) ==
  /\ input.reqs[id].pc = "drain"
  /\ \E ok \in BOOLEAN, linkUp \in BOOLEAN :
       LET ms == Head(input.reqs[id].steps).duration
       IN  InputCommit(IF ~ok THEN thrown(input, id)
                       ELSE IF ms > 0
                         THEN [input EXCEPT !.reqs[id].pc = "wait",
                                            !.reqs[id].wrote = Append(@, Waited(ms))]
                       ELSE nextStep(input, id, linkUp))

\* The timer of delay(ms) fires.
DelayDone(id) ==
  /\ input.reqs[id].pc = "wait"
  /\ \E linkUp \in BOOLEAN : InputCommit(nextStep(input, id, linkUp))

\* One request at a time, of every kind.
RestRequest == RestRequestOf(1, RestRequests)
WsMessage == WsMessageOf(1, WsMessages)

InputOneNext ==
  \/ RestRequest \/ BodyParsed(1) \/ WsMessage \/ WriteDone(1) \/ DelayDone(1)

\* Key presses and combos requested concurrently.
ConcurrentRest == {KeyRequest("rest", "up"), KeysRequest("rest", "shift", "edit")}
ConcurrentWs == {KeyRequest("ws", "left"), KeysRequest("ws", "opt", "down")}

InputNext ==
  \/ \E id \in RequestIds : RestRequestOf(id, ConcurrentRest)
  \/ \E id \in RequestIds : BodyParsed(id)
  \/ \E id \in RequestIds : WsMessageOf(id, ConcurrentWs)
  \/ \E id \in RequestIds : WriteDone(id)
  \/ \E id \in RequestIds : DelayDone(id)

\* ======================================================== TCP client input
\* The bytes a TCP client sends: the "data" listener of its socket hands them
\* to onClientData, which awaits connection.sendRaw(data). The record:
\*   sent        chunks the clients have sent so far
\*   writing     the chunks handed to serial.write and not yet drained
\*   forwarded   the chunks written to the serial port, in order
\*   rejections  promises of onClientData that were rejected; nothing handles them
\*   alive       the server process runs
ClientInit ==
  clientIn = [sent |-> 0, writing |-> {}, forwarded |-> <<>>, rejections |-> 0,
              alive |-> TRUE]

ClientCommit(c) ==
  /\ clientIn' = c
  /\ UNCHANGED <<slipVars, linkVars, tcpVars, hubVars, parserVars, gridVars, deltaVars,
                 pipeVars, ringVars, recVars, capVars, streamerVars, shutVars, ultVars,
                 inputVars>>

\* The promise of onClientData is rejected: the "data" listener neither
\* awaits nor catches it and no unhandledRejection handler is installed, so
\* Node 20 ends the process.
unhandledRejection(c) == [c EXCEPT !.rejections = @ + 1, !.alive = FALSE]

\* onClientData(data): sendRaw throws "Not connected" without a port or a
\* connection, and else writes the data to the port.
onClientData(c, chunk) ==
  IF serial = 0 \/ ~connected THEN unhandledRejection(c)
  ELSE [c EXCEPT !.writing = @ \cup {chunk}]

\* The "data" event of a client socket.
ClientData ==
  /\ clientIn.alive
  /\ clientIn.sent < MaxClientData
  /\ LET chunk == clientIn.sent + 1
     IN  ClientCommit(onClientData([clientIn EXCEPT !.sent = chunk], chunk))

\* The write and the drain of sendRaw complete, or one of them fails and
\* rejects the promise.
ClientWriteDone ==
  \E chunk \in clientIn.writing, ok \in BOOLEAN :
    clientIn.alive /\
    LET c == [clientIn EXCEPT !.writing = @ \ {chunk}]
    IN  ClientCommit(IF ok THEN [c EXCEPT !.forwarded = Append(@, chunk)]
                     ELSE unhandledRejection(c))

\* The steps of the link while the process runs: the startup connect, the
\* loss of the port and the reconnect loop.
ClientLinkConnect == clientIn.alive /\ OwnerConnect
ClientLinkOpened == clientIn.alive /\ \E t \in BagToSet(tasks) : OpenOk(t)
ClientLinkOpenFailed == clientIn.alive /\ \E t \in BagToSet(tasks) : OpenFail(t)
ClientLinkLost == clientIn.alive /\ \E h \in Handles : SerialClose(h)
ClientLinkTick == clientIn.alive /\ TickFire
ClientLinkScanned == clientIn.alive /\ \E t \in BagToSet(tasks) : TickScanDone(t)
ClientLinkRecovered == clientIn.alive /\ \E t \in BagToSet(tasks) : TickResetDone(t)

ClientInputNext ==
  \/ ClientLinkConnect \/ ClientLinkOpened \/ ClientLinkOpenFailed \/ ClientLinkLost
  \/ ClientLinkTick \/ ClientLinkScanned \/ ClientLinkRecovered
  \/ ClientData \/ ClientWriteDone

\* =========================================================== command parser
Black == [r |-> 0, g |-> 0, b |-> 0]
NoCommand == [type |-> "null"]
CommandIds == {RECT, TEXT, WAVE, JPAD, SYSTEM}

\* A frame of len bytes: an identifier followed by len - 1 equal bytes.
MkFrame(id, len, fill) == [i \in 1..len |-> IF i = 1 THEN id ELSE fill]
FillBytes == {1, 2}
ParserFrames ==
  {MkFrame(id, len, fill) : id \in CommandIds \cup {0}, len \in 0..MaxFrameLen, fill \in FillBytes}

\* data[offset] of a Uint8Array
at(data, offset) == data[offset + 1]

readU16LE(data, offset) == at(data, offset) + 256 * at(data, offset + 1)

readColor(data, offset) ==
  [r |-> at(data, offset), g |-> at(data, offset + 1), b |-> at(data, offset + 2)]

\* parseRect(data) with lastRectColor = last: the command (or null) and the
\* lastRectColor it leaves.
parseRect(data, last) ==
  LET len == Len(data)
  IN  IF len < 5 THEN [cmd |-> NoCommand, last |-> last]
      ELSE
        LET x == readU16LE(data, 1)
            y == readU16LE(data, 3)
            sized == len = 9 \/ len >= 12
            width == IF sized THEN readU16LE(data, 5) ELSE 1
            height == IF sized THEN readU16LE(data, 7) ELSE 1
            color == IF len = 8 THEN readColor(data, 5)
                     ELSE IF len >= 12 THEN readColor(data, 9)
                     ELSE last
        IN  [cmd |-> [type |-> "rect", x |-> x, y |-> y, width |-> width,
                      height |-> height, color |-> color],
             last |-> color]

parseText(data) ==
  IF Len(data) < 12 THEN NoCommand
  ELSE LET charCode == at(data, 1)
       IN  [type |-> "text",
            char |-> IF charCode >= 32 /\ charCode < 127 THEN charCode ELSE 32,
            charCode |-> charCode,
            x |-> readU16LE(data, 2), y |-> readU16LE(data, 4),
            fg |-> readColor(data, 6), bg |-> readColor(data, 9)]

parseWave(data) ==
  IF Len(data) < 4 THEN NoCommand
  ELSE [type |-> "wave", color |-> readColor(data, 1), data |-> SubSeq(data, 5, Len(data))]

parseJpad(data) ==
  IF Len(data) < 2 THEN NoCommand
  ELSE [type |-> "jpad",
        state |-> IF Len(data) >= 3 THEN readU16LE(data, 1) ELSE at(data, 1)]

parseSystem(data) ==
  IF Len(data) < 6 THEN NoCommand
  ELSE [type |-> "system", hardwareType |-> at(data, 1), firmwareMajor |-> at(data, 2),
        firmwareMinor |-> at(data, 3), firmwarePatch |-> at(data, 4), fontMode |-> at(data, 5)]

\* parseCommand(frame) with lastRectColor = last.
parseCommand(frame, last) ==
  IF Len(frame) = 0 THEN [cmd |-> NoCommand, last |-> last]
  ELSE LET cmd == frame[1]
       IN  IF cmd = RECT THEN parseRect(frame, last)
           ELSE IF cmd = TEXT THEN [cmd |-> parseText(frame), last |-> last]
           ELSE IF cmd = WAVE THEN [cmd |-> parseWave(frame), last |-> last]
           ELSE IF cmd = JPAD THEN [cmd |-> parseJpad(frame), last |-> last]
           ELSE IF cmd = SYSTEM THEN [cmd |-> parseSystem(frame), last |-> last]
           ELSE [cmd |-> NoCommand, last |-> last]

ParserInit ==
  /\ lastRectColor = Black
  /\ parsedFrame = <<>>
  /\ parsedCmd = NoCommand
  /\ colorFormColor = Black
  /\ colorFormSeen = FALSE
  /\ parseCount = 0

\* One call of parseCommand(frame).
Parse ==
  \E frame \in ParserFrames :
    /\ parseCount < MaxParses
    /\ parseCount' = parseCount + 1
    /\ LET p == parseCommand(frame, lastRectColor)
           colorForm == Len(frame) \in {8, 12} /\ frame[1] = RECT
       IN  /\ lastRectColor' = p.last
           /\ parsedCmd' = p.cmd
           /\ colorFormSeen' = (colorFormSeen \/ colorForm)
           /\ colorFormColor' = IF colorForm THEN p.cmd.color ELSE colorFormColor
    /\ parsedFrame' = frame
    /\ UNCHANGED <<slipVars, linkVars, tcpVars, hubVars, gridVars, deltaVars, pipeVars, ringVars, recVars, capVars, streamerVars, shutVars, ultVars, inputVars, clientVars>>

ParserNext == Parse

\* ================================================================ text grid
White == [r |-> WHITE_LEVEL, g |-> WHITE_LEVEL, b |-> WHITE_LEVEL]
Grey == [r |-> 96, g |-> 96, b |-> 96]
Space == 32

isHighlight(color) == color.r > HIGHLIGHT_THRESHOLD /\ color.g > HIGHLIGHT_THRESHOLD

emptyCell == [char |-> Space, fg |-> White, bg |-> Black]

createEmptyGrid == [row \in 0..(ROWS - 1) |-> [col \in 0..(COLS - 1) |-> emptyCell]]

\* new TextBuffer(); lastUpdate is the logical time of the last change.
NewTextBuffer ==
  [cells |-> createEmptyGrid, cursorRow |-> 0, cursorCol |-> 0, lastUpdate |-> 0]

\* A TextBuffer.applyText that stores the cell one column to the right.
applyTextShifted(tb, cmd, now) ==
  LET col == (cmd.x \div CHAR_WIDTH) + 1
      row == cmd.y \div CHAR_HEIGHT
  IN  IF row >= 0 /\ row < ROWS /\ col >= 0 /\ col < COLS
        THEN [tb EXCEPT !.cells[row][col] = [char |-> cmd.char, fg |-> cmd.fg, bg |-> cmd.bg],
                        !.lastUpdate = now]
        ELSE tb

\* A TextBuffer.applyText that moves the cursor to every cell it writes.
applyTextMovesCursor(tb, cmd, now) ==
  LET col == cmd.x \div CHAR_WIDTH
      row == cmd.y \div CHAR_HEIGHT
  IN  IF row >= 0 /\ row < ROWS /\ col >= 0 /\ col < COLS
        THEN [tb EXCEPT !.cells[row][col] = [char |-> cmd.char, fg |-> cmd.fg, bg |-> cmd.bg],
                        !.cursorRow = row,
                        !.cursorCol = col,
                        !.lastUpdate = now]
        ELSE tb

\* TextBuffer.applyText(cmd)
applyText(tb, cmd, now) ==
  LET col == cmd.x \div CHAR_WIDTH
      row == cmd.y \div CHAR_HEIGHT
  IN  IF row >= 0 /\ row < ROWS /\ col >= 0 /\ col < COLS
        THEN [tb EXCEPT !.cells[row][col] = [char |-> cmd.char, fg |-> cmd.fg, bg |-> cmd.bg],
                        !.cursorRow = IF isHighlight(cmd.fg) THEN row ELSE @,
                        !.cursorCol = IF isHighlight(cmd.fg) THEN col ELSE @,
                        !.lastUpdate = now]
        ELSE tb

\* TextBuffer.clear()
clear(tb, now) ==
  [cells |-> createEmptyGrid, cursorRow |-> 0, cursorCol |-> 0, lastUpdate |-> now]

\* TextBuffer.applyRect(cmd)
applyRect(tb, cmd, now) ==
  IF cmd.x = 0 /\ cmd.y = 0 /\ cmd.width >= SCREEN_WIDTH /\ cmd.height >= SCREEN_HEIGHT
    THEN clear(tb, now)
    ELSE
      LET startCol == cmd.x \div CHAR_WIDTH
          startRow == cmd.y \div CHAR_HEIGHT
          endCol == (cmd.x + cmd.width + CHAR_WIDTH - 1) \div CHAR_WIDTH
          endRow == (cmd.y + cmd.height + CHAR_HEIGHT - 1) \div CHAR_HEIGHT
      IN  [tb EXCEPT
             !.cells = [row \in 0..(ROWS - 1) |-> [col \in 0..(COLS - 1) |->
                          IF row >= startRow /\ row < endRow /\ col >= startCol /\ col < endCol
                            THEN [char |-> Space, fg |-> White, bg |-> cmd.color]
                            ELSE tb.cells[row][col]]],
             !.lastUpdate = now]

\* Pixel coordinates at the edges of the grid and beyond, as a u16 can hold.
GridXs == {0, SCREEN_WIDTH - 1, SCREEN_WIDTH, MaxUInt16}
GridYs == {0, CHAR_HEIGHT - 1, CHAR_HEIGHT, SCREEN_HEIGHT - 1, SCREEN_HEIGHT}

\* A foreground with r above the highlight threshold and g exactly at it.
AtThreshold == [r |-> WHITE_LEVEL, g |-> HIGHLIGHT_THRESHOLD, b |-> WHITE_LEVEL]

TextCommands ==
  {[type |-> "text", char |-> DataByte, charCode |-> DataByte, x |-> x, y |-> y, fg |-> fg, bg |-> bg] :
     x \in GridXs, y \in GridYs, fg \in {White, Grey}, bg \in {Black}}
  \cup {[type |-> "text", char |-> DataByte, charCode |-> DataByte, x |-> CHAR_WIDTH,
          y |-> CHAR_HEIGHT, fg |-> AtThreshold, bg |-> Black]}

RectCommands ==
  {[type |-> "rect", x |-> x, y |-> y, width |-> w, height |-> h, color |-> Grey] :
     x \in {0, CHAR_WIDTH}, y \in {0},
     w \in {1, SCREEN_WIDTH}, h \in {1, SCREEN_HEIGHT}}

GridInit ==
  /\ textBuffer = NewTextBuffer
  /\ gridCmd = NoCommand
  /\ gridCount = 0

\* buffer.applyText(cmd)
GridApplyText ==
  \E cmd \in TextCommands :
    /\ gridCount < MaxApplies
    /\ gridCount' = gridCount + 1
    /\ textBuffer' = applyText(textBuffer, cmd, gridCount + 1)
    /\ gridCmd' = cmd
    /\ UNCHANGED <<slipVars, linkVars, tcpVars, hubVars, parserVars, deltaVars, pipeVars, ringVars, recVars, capVars, streamerVars, shutVars, ultVars, inputVars, clientVars>>

\* buffer.applyRect(cmd)
GridApplyRect ==
  \E cmd \in RectCommands :
    /\ gridCount < MaxApplies
    /\ gridCount' = gridCount + 1
    /\ textBuffer' = applyRect(textBuffer, cmd, gridCount + 1)
    /\ gridCmd' = cmd
    /\ UNCHANGED <<slipVars, linkVars, tcpVars, hubVars, parserVars, deltaVars, pipeVars, ringVars, recVars, capVars, streamerVars, shutVars, ultVars, inputVars, clientVars>>

GridNext == GridApplyText \/ GridApplyRect

\* ============================================================== delta cache
EmptyMap == [k \in {} |-> NoCommand]

\* Map.set(key, value)
mapSet(map, key, value) ==
  [k \in (DOMAIN map) \cup {key} |-> IF k = key THEN value ELSE map[k]]

\* `T:${x}:${y}` and `R:${x}:${y}:${width}:${height}`: one key per tuple.
textHash(cmd) == <<cmd.x, cmd.y>>
rectHash(cmd) == <<cmd.x, cmd.y, cmd.width, cmd.height>>

colorEqual(a, b) == a.r = b.r /\ a.g = b.g /\ a.b = b.b

textEqual(a, b) ==
  a.charCode = b.charCode /\ colorEqual(a.fg, b.fg) /\ colorEqual(a.bg, b.bg)

rectEqual(a, b) == colorEqual(a.color, b.color)

isScreenClear(cmd) == cmd.width * cmd.height >= SCREEN_CLEAR_WIDTH * SCREEN_CLEAR_HEIGHT

NewDisplayDelta ==
  [textCache |-> EmptyMap, rectCache |-> EmptyMap, sentCount |-> 0, skippedCount |-> 0]

sent(dd) == [delta |-> [dd EXCEPT !.sentCount = @ + 1], send |-> TRUE]
skipped(dd) == [delta |-> [dd EXCEPT !.skippedCount = @ + 1], send |-> FALSE]

\* A checkText that compares the character only.
checkTextIgnoresColors(dd, cmd) ==
  LET key == textHash(cmd)
  IN  IF key \in DOMAIN dd.textCache /\ dd.textCache[key].charCode = cmd.charCode
        THEN skipped(dd)
        ELSE sent([dd EXCEPT !.textCache = mapSet(@, key, cmd)])

\* DisplayDelta.checkText(cmd)
checkText(dd, cmd) ==
  LET key == textHash(cmd)
  IN  IF key \in DOMAIN dd.textCache /\ textEqual(dd.textCache[key], cmd)
        THEN skipped(dd)
        ELSE sent([dd EXCEPT !.textCache = mapSet(@, key, cmd)])

\* A checkRect that forgets only the rectangles on a screen clear.
checkRectKeepsTexts(dd, cmd) ==
  IF isScreenClear(cmd)
    THEN sent([dd EXCEPT !.rectCache = EmptyMap])
    ELSE LET key == rectHash(cmd)
         IN  IF key \in DOMAIN dd.rectCache /\ rectEqual(dd.rectCache[key], cmd)
               THEN skipped(dd)
               ELSE sent([dd EXCEPT !.rectCache = mapSet(@, key, cmd)])

\* DisplayDelta.checkRect(cmd)
checkRect(dd, cmd) ==
  IF isScreenClear(cmd)
    THEN sent([dd EXCEPT !.textCache = EmptyMap, !.rectCache = EmptyMap])
    ELSE LET key == rectHash(cmd)
         IN  IF key \in DOMAIN dd.rectCache /\ rectEqual(dd.rectCache[key], cmd)
               THEN skipped(dd)
               ELSE sent([dd EXCEPT !.rectCache = mapSet(@, key, cmd)])

\* DisplayDelta.shouldSend(cmd): the cache afterwards and the value returned.
shouldSend(dd, cmd) ==
  IF cmd.type = "wave" THEN sent(dd)
  ELSE IF cmd.type = "jpad" \/ cmd.type = "system" THEN sent(dd)
  ELSE IF cmd.type = "text" THEN checkText(dd, cmd)
  ELSE IF cmd.type = "rect" THEN checkRect(dd, cmd)
  ELSE sent(dd)

\* A consumer's display: the text grid, with the commands it was given.
applyToView(tb, cmd) ==
  IF cmd.type = "text" THEN applyText(tb, cmd, 0)
  ELSE IF cmd.type = "rect" THEN applyRect(tb, cmd, 0)
  ELSE tb

DeltaText(c, x, fg) ==
  [type |-> "text", char |-> c, charCode |-> c, x |-> x, y |-> 0, fg |-> fg, bg |-> Black]

DeltaRect(w, h, color) ==
  [type |-> "rect", x |-> 0, y |-> 0, width |-> w, height |-> h, color |-> color]

DeltaTexts ==
  {DeltaText(DataByte, 0, White), DeltaText(DataByte, 0, Grey),
   DeltaText(DataByte + 1, 0, White), DeltaText(DataByte, CHAR_WIDTH, White)}

\* A one-cell rectangle in two colors, the largest rectangle below the
\* screen-clear threshold, and the smallest one at the threshold.
DeltaRects ==
  {DeltaRect(CHAR_WIDTH, CHAR_HEIGHT, Black), DeltaRect(CHAR_WIDTH, CHAR_HEIGHT, Grey),
   DeltaRect(SCREEN_CLEAR_WIDTH, SCREEN_CLEAR_HEIGHT - 1, Grey),
   DeltaRect(SCREEN_CLEAR_WIDTH, SCREEN_CLEAR_HEIGHT, Black)}

DeltaCommands ==
  DeltaTexts \cup DeltaRects \cup {[type |-> "wave", color |-> White, data |-> <<>>]}

DeltaInit ==
  /\ delta = NewDisplayDelta
  /\ deltaHist = <<>>
  /\ viewAll = NewTextBuffer
  /\ viewAdmitted = NewTextBuffer

\* delta.shouldSend(cmd), and the two consumers: one given every command, one
\* given the admitted ones.
ShouldSend ==
  \E cmd \in DeltaCommands :
    /\ Len(deltaHist) < MaxDeltaCalls
    /\ LET r == shouldSend(delta, cmd)
       IN  /\ delta' = r.delta
           /\ deltaHist' = Append(deltaHist, [kind |-> "call", cmd |-> cmd, send |-> r.send])
           /\ viewAdmitted' = IF r.send THEN applyToView(viewAdmitted, cmd) ELSE viewAdmitted
    /\ viewAll' = applyToView(viewAll, cmd)
    /\ UNCHANGED <<slipVars, linkVars, tcpVars, hubVars, parserVars, gridVars, pipeVars, ringVars, recVars, capVars, streamerVars, shutVars, ultVars, inputVars, clientVars>>

\* delta.reset()
DeltaReset ==
  /\ Len(deltaHist) < MaxDeltaCalls
  /\ delta' = [delta EXCEPT !.textCache = EmptyMap, !.rectCache = EmptyMap]
  /\ deltaHist' = Append(deltaHist, [kind |-> "reset", cmd |-> NoCommand, send |-> FALSE])
  /\ UNCHANGED <<viewAll, viewAdmitted>>
  /\ UNCHANGED <<slipVars, linkVars, tcpVars, hubVars, parserVars, gridVars, pipeVars, ringVars, recVars, capVars, streamerVars, shutVars, ultVars, inputVars, clientVars>>

\* delta.resetStats()
DeltaResetStats ==
  /\ Len(deltaHist) < MaxDeltaCalls
  /\ delta' = [delta EXCEPT !.sentCount = 0, !.skippedCount = 0]
  /\ deltaHist' = Append(deltaHist, [kind |-> "resetStats", cmd |-> NoCommand, send |-> FALSE])
  /\ UNCHANGED <<viewAll, viewAdmitted>>
  /\ UNCHANGED <<slipVars, linkVars, tcpVars, hubVars, parserVars, gridVars, pipeVars, ringVars, recVars, capVars, streamerVars, shutVars, ultVars, inputVars, clientVars>>

DeltaNext == ShouldSend \/ DeltaReset \/ DeltaResetStats

\* ======================================================== command pipeline
\* The serial data listener of the connection with the callbacks the entry
\* point installs. The operators thread the record
\*   [slip, last, buffer, framebuffer, log]
\* of the decoder, the parser's lastRectColor, the text grid, the framebuffer
\* and the log of what the sinks were handed. k numbers the chunk.
PipeEvent(ev, k, cmd, p) ==
  [ev |-> ev, chunk |-> k, cmd |-> cmd, cells |-> p.buffer.cells, framebuffer |-> p.framebuffer]

logEvent(p, ev, k, cmd) == [p EXCEPT !.log = Append(p.log, PipeEvent(ev, k, cmd, p))]

\* server.broadcastDisplay(data), then tcpProxy.broadcast(data) if there is
\* a proxy.
onSerialData(p, k, proxy) ==
  LET p1 == logEvent(p, "broadcastDisplay", k, NoCommand)
  IN  IF proxy THEN logEvent(p1, "tcpProxy.broadcast", k, NoCommand) ELSE p1

applyProjections(p, cmd, k) ==
  IF cmd.type = "text"
    THEN [p EXCEPT !.buffer = applyText(p.buffer, cmd, k),
                   !.framebuffer = Append(p.framebuffer, cmd)]
  ELSE IF cmd.type = "rect"
    THEN [p EXCEPT !.buffer = applyRect(p.buffer, cmd, k),
                   !.framebuffer = Append(p.framebuffer, cmd)]
  ELSE IF cmd.type = "wave"
    THEN [p EXCEPT !.framebuffer = Append(p.framebuffer, cmd)]
  ELSE p

\* An onCommand that broadcasts the command before applying it.
onCommandBroadcastsFirst(p, cmd, k) ==
  applyProjections(logEvent(p, "broadcastCommand", k, cmd), cmd, k)

onCommand(p, cmd, k) ==
  logEvent(applyProjections(p, cmd, k), "broadcastCommand", k, cmd)

handleFrame(p, frame, k) ==
  LET r == parseCommand(frame, p.last)
      p1 == [p EXCEPT !.last = r.last]
  IN  IF r.cmd # NoCommand THEN onCommand(p1, r.cmd, k) ELSE p1

\* slip.feed(bytes): the frame callback runs inside the byte loop.
RECURSIVE slipFeed(_, _, _, _)
slipFeed(p, data, i, k) ==
  IF i > Len(data) THEN p
  ELSE LET d == processByte(p.slip, data[i])
           p1 == [p EXCEPT !.slip = [d EXCEPT !.frames = <<>>]]
       IN  slipFeed(IF d.frames # <<>> THEN handleFrame(p1, d.frames[1], k) ELSE p1,
                    data, i + 1, k)

\* A data listener that feeds the decoder before it forwards the raw bytes.
dataListenerFeedsFirst(p, data, k, proxy) ==
  onSerialData(slipFeed(logEvent(p, "slip.feed", k, NoCommand), data, 1, k), k, proxy)

dataListener(p, data, k, proxy) ==
  slipFeed(logEvent(onSerialData(p, k, proxy), "slip.feed", k, NoCommand), data, 1, k)

\* Frames of the device: 'A' at (0,0) in white on black, a grey 1x1
\* rectangle at (0,0), a white waveform without samples, a joypad state.
TextFrame == <<TEXT, DataByte, 0, 0, 0, 0, WHITE_LEVEL, WHITE_LEVEL, WHITE_LEVEL, 0, 0, 0>>
RectFrame == <<RECT, 0, 0, 0, 0, Grey.r, Grey.g, Grey.b>>
WaveFrame == <<WAVE, WHITE_LEVEL, WHITE_LEVEL, WHITE_LEVEL>>
JpadFrame == <<JPAD, 0>>

\* What a read of the serial port can deliver: a whole encoded frame, the
\* first or the second half of one, two encoded frames at once.
SerialChunks ==
  LET text == slipEncode(TextFrame)
      half == Len(text) \div 2
  IN  {text, slipEncode(RectFrame), slipEncode(WaveFrame), slipEncode(JpadFrame),
       SubSeq(text, 1, half), SubSeq(text, half + 1, Len(text)),
       text \o slipEncode(RectFrame)}

PipeInit ==
  /\ connSlip = NewDecoder
  /\ gridBuffer = NewTextBuffer
  /\ framebuffer = <<>>
  /\ pipeLog = <<>>
  /\ tcpProxy \in BOOLEAN
  /\ chunkCount = 0

\* serial.on("data"): one chunk read from the device.
SerialData ==
  \E data \in SerialChunks :
    /\ chunkCount < MaxPipeChunks
    /\ chunkCount' = chunkCount + 1
    /\ LET p == dataListener([slip |-> connSlip, last |-> lastRectColor, buffer |-> gridBuffer,
                              framebuffer |-> framebuffer, log |-> pipeLog],
                             data, chunkCount + 1, tcpProxy)
       IN  /\ connSlip' = p.slip
           /\ lastRectColor' = p.last
           /\ gridBuffer' = p.buffer
           /\ framebuffer' = p.framebuffer
           /\ pipeLog' = p.log
    /\ UNCHANGED <<tcpProxy, parsedFrame, parsedCmd, colorFormColor, colorFormSeen, parseCount>>
    /\ UNCHANGED <<slipVars, linkVars, tcpVars, hubVars, gridVars, deltaVars, ringVars, recVars, capVars, streamerVars, shutVars, ultVars, inputVars, clientVars>>

PipeNext == SerialData

\* ========================================================== specifications
Init ==
  /\ SlipInit /\ LinkInit /\ TcpInit /\ HubInit
  /\ ParserInit /\ GridInit /\ DeltaInit /\ PipeInit /\ RingInit /\ RecInit
  /\ CaptureInit /\ StreamerInit /\ ShutdownInit /\ UltimateInit /\ InputInit /\ ClientInit

\* A component left at rest keeps one configuration: no port configured, no
\* auto-reconnect and no device for the link, audio enabled for the broadcaster.
SlipOnly ==
  /\ Init /\ optPort = "" /\ autoReconnect = FALSE /\ devicePresent = FALSE
  /\ audioEnabled = TRUE /\ tcpProxy = FALSE /\ ring.allowOverwrite = FALSE
  /\ cap.kind = "alsa" /\ streamer.external = FALSE /\ shut = IdleServer
SpecSlip == SlipOnly /\ [][SlipNext]_vars

TcpOnly ==
  /\ Init /\ optPort = "" /\ autoReconnect = FALSE /\ devicePresent = FALSE
  /\ tcpProxy = FALSE /\ ring.allowOverwrite = FALSE
  /\ cap.kind = "alsa" /\ streamer.external = FALSE /\ shut = IdleServer
SpecTcp == TcpOnly /\ [][TcpNext]_vars

HubOnly ==
  /\ Init /\ optPort = "" /\ autoReconnect = FALSE /\ devicePresent = FALSE
  /\ audioEnabled = TRUE /\ tcpProxy = FALSE /\ ring.allowOverwrite = FALSE
  /\ cap.kind = "alsa" /\ streamer.external = FALSE /\ shut = IdleServer
SpecHub == HubOnly /\ [][HubNext]_vars

SpecParser == HubOnly /\ [][ParserNext]_vars

SpecGrid == HubOnly /\ [][GridNext]_vars

SpecSlipCodec == SlipOnly /\ [][CodecNext]_vars

SpecDelta == HubOnly /\ [][DeltaNext]_vars

\* The pipeline with or without a TCP proxy.
PipeOnly ==
  /\ Init /\ optPort = "" /\ autoReconnect = FALSE /\ devicePresent = FALSE
  /\ audioEnabled = TRUE /\ ring.allowOverwrite = FALSE
  /\ cap.kind = "alsa" /\ streamer.external = FALSE /\ shut = IdleServer
SpecPipe == PipeOnly /\ [][PipeNext]_vars

LinkOnly ==
  /\ Init /\ audioEnabled = TRUE /\ tcpProxy = FALSE /\ ring.allowOverwrite = FALSE
  /\ cap.kind = "alsa" /\ streamer.external = FALSE /\ shut = IdleServer
SpecLink == LinkOnly /\ [][LinkNext]_vars

\* The link with its writers: sendRaw writes no field of the link, so the
\* reachable link states are those of SpecLink.
LinkWriteNext == LinkNext \/ SendRaw

SpecLinkWrite == LinkOnly /\ [][LinkWriteNext]_vars

\* The ring buffer under either overwrite policy.
RingOnly ==
  /\ Init /\ optPort = "" /\ autoReconnect = FALSE /\ devicePresent = FALSE
  /\ audioEnabled = TRUE /\ tcpProxy = FALSE /\ cap.kind = "alsa"
  /\ streamer.external = FALSE /\ shut = IdleServer
SpecRing == RingOnly /\ [][RingNext]_vars

SpecRec == HubOnly /\ [][RecNext]_vars

\* A capture of any of the three classes.
CaptureOnly ==
  /\ Init /\ optPort = "" /\ autoReconnect = FALSE /\ devicePresent = FALSE
  /\ audioEnabled = TRUE /\ tcpProxy = FALSE /\ ring.allowOverwrite = FALSE
  /\ streamer.external = FALSE /\ shut = IdleServer
SpecCapture == CaptureOnly /\ [][CaptureNext]_vars

\* The streamer with or without the TCP audio callback.
StreamerOnly ==
  /\ Init /\ optPort = "" /\ autoReconnect = FALSE /\ devicePresent = FALSE
  /\ audioEnabled = TRUE /\ tcpProxy = FALSE /\ ring.allowOverwrite = FALSE
  /\ cap.kind = "alsa" /\ shut = IdleServer
SpecStreamer == StreamerOnly /\ [][StreamerNext]_vars

\* shutdown() from every state of the servers, the audio and the link.
ShutdownOnly ==
  /\ Init /\ optPort = "" /\ autoReconnect = FALSE /\ devicePresent = FALSE
  /\ audioEnabled = TRUE /\ tcpProxy = FALSE /\ ring.allowOverwrite = FALSE
  /\ cap.kind = "alsa" /\ streamer.external = FALSE
SpecShutdown == ShutdownOnly /\ [][ShutdownNext]_vars

\* A call of ultimateReset() with every outcome of its methods.
SpecUltimate == HubOnly /\ [][UltimateNext]_vars

\* One input request, from REST or the control WebSocket.
SpecInputOne == HubOnly /\ [][InputOneNext]_vars

\* Key presses and combos from REST and the control WebSocket, interleaved.
SpecInput == HubOnly /\ [][InputNext]_vars

\* shutdown() called once or twice.
SpecShutdownTwice == ShutdownOnly /\ [][ShutdownTwiceNext]_vars

\* The input of TCP clients on a link that connects, is lost and reconnects.
ClientInputOnly ==
  /\ Init /\ optPort = DevPath /\ autoReconnect = TRUE /\ devicePresent = TRUE
  /\ audioEnabled = TRUE /\ tcpProxy = TRUE /\ ring.allowOverwrite = FALSE
  /\ cap.kind = "alsa" /\ streamer.external = FALSE /\ shut = IdleServer
SpecClientInput == ClientInputOnly /\ [][ClientInputNext]_vars


\* ================================================================== claims
\* C1: however the byte stream was cut into consecutive feed() calls (empty
\* chunks and chunks ending between ESC and its escaped byte included), the
\* frames emitted so far, and the decoder's pending state, are those of one
\* feed() of the whole stream to a fresh decoder.
C1_FragmentationInvariance ==
  LET whole == feed(NewDecoder, slipFed)
  IN  /\ slipFrames = whole.frames
      /\ slipBuffer = whole.buffer
      /\ slipState = whole.state

\* A stream cut inside an escape pair, in at least two calls, that has emitted
\* a frame holding the escaped END.
C1_Witness ==
  /\ slipSplitEscape
  /\ \E i \in 1..Len(slipFrames) : \E j \in 1..Len(slipFrames[i]) : slipFrames[i][j] = END
  /\ slipFed = <<ESC, ESC_END, DataByte, END>>

\* ------------------------------------------------------------ serial link
TickTasks(tk) ==
  CopiesIn(Task("tick", "scan", 0), tk) + CopiesIn(Task("tick", "reset", 0), tk)
  + BagCardinality([t \in {u \in BagToSet(tk) : u.who = "tick" /\ u.pc = "open"} |-> tk[t]])

\* C2: once disconnect() has been called, and until the owner calls connect()
\* again, no reconnect tick starts a scan, a port open or a USB recovery, and
\* no tick's open turns a disconnected link connected.
C2_StoppedLoopStaysStopped ==
  [][(ownerStopped /\ ownerStopped')
       => /\ TickTasks(tasks') <= TickTasks(tasks)
          /\ \A h \in Handles :
               CopiesIn(Task("tick", "open", h), tasks') <= CopiesIn(Task("tick", "open", h), tasks)
          /\ (~connected /\ connected')
               => \A h \in Handles :
                    CopiesIn(Task("tick", "open", h), tasks') = CopiesIn(Task("tick", "open", h), tasks)]_vars

\* C3: the reconnect loop invokes the recovery ladder after three unsuccessful
\* scans, and the ladder then starts with level 1.
C3_RecoveryAfterThreeScansFromLevel1 ==
  lastOp.name = "tickRecovery"
    => /\ lastOp.arg = MAX_SOFT_ATTEMPTS
       /\ lastLadder # <<>>
       /\ Head(lastLadder) = 1

\* C4: with auto-reconnect enabled, an initial connect() that fails because no
\* device is present leaves the link scanning (the reconnect timer is set or
\* a tick is in flight).
C4_FailedStartKeepsScanning ==
  (autoReconnect /\ ~ownerStopped /\ lastOp.name = "connectThrew")
    => (reconnectTimer \/ TickTasks(tasks) > 0)

\* C5 (as amended): when a connected link gets an "error" or a "close" from its
\* port, the step leaves it disconnected with the device path cleared, calls
\* the onDisconnect hook once, and, if auto-reconnect is enabled and the link
\* is not being stopped by disconnect(), leaves the reconnect timer set.
C5_DisconnectHandling ==
  [][lastOp'.name = "loss"
       => /\ ~connected'
          /\ serial' = 0
          /\ optPort' = ""
          /\ hooksFired' = 1
          /\ ((autoReconnect /\ ~stopping) => reconnectTimer')]_vars

\* A connected link that lost its port to an I/O error and is scanning again.
C5_Witness ==
  /\ lastOp = Op("loss", "error")
  /\ autoReconnect /\ ~stopping
  /\ ~connected /\ optPort = "" /\ hooksFired = 1 /\ reconnectTimer

\* C5 (as claimed): the same, with the scan running whenever auto-reconnect is
\* enabled.
C5_AsClaimed ==
  [][lastOp'.name = "loss"
       => /\ ~connected'
          /\ optPort' = ""
          /\ hooksFired' = 1
          /\ (autoReconnect => reconnectTimer')]_vars

\* C6: after a write or a drain of sendRaw failed on a connected link, the
\* link is disconnected and, with auto-reconnect, the reconnect timer is set.
C6_WriteErrorDisconnects ==
  (lastOp.name = "sendRaw" /\ lastOp.arg \in {"writeError", "drainError"})
    => (~connected /\ (autoReconnect => reconnectTimer))

\* C7: after a flush or an audio broadcast in which the write to some clients
\* threw, exactly those clients have left the client map, and every other
\* client was written to.
C7_FailedWriterRemoved ==
  tcpLast.op \in {"flush", "audio"}
    => /\ tcpClients = tcpLast.before \ tcpLast.failed
       /\ tcpLast.wrote = tcpLast.before \ tcpLast.failed

\* C8: in one onAudioData(data), every client whose send threw leaves the hub,
\* and every other client that is OPEN stays in the hub and is sent
\* [0x00] + data as its next message.
C8_DeadConsumerIsolation ==
  [][hubLast'.op = "audio"
       => \A w \in hubClients :
            /\ w \in hubLast'.failed => w \notin hubClients'
            /\ (w \notin hubLast'.failed /\ readyState[w] = "OPEN")
                 => /\ w \in hubClients'
                    /\ hubRecv'[w] = Append(hubRecv[w], <<MSG_AUDIO>> \o hubLast'.data)]_vars

\* One client was dropped on a failed send while another got the chunk, and
\* the survivor then got the next chunk as well.
C8_Witness ==
  /\ hubLast.op = "audio"
  /\ \E w \in WsIds :
       /\ w \in hubClients
       /\ Len(hubRecv[w]) = 2
       /\ \E v \in WsIds \ {w} :
            /\ v \notin hubClients
            /\ readyState[v] = "OPEN"
            /\ Len(hubRecv[v]) = 0

RECURSIVE Parses(_)
\* s is a concatenation of records tag(1) || length(2, BE) || payload(length).
Parses(s) ==
  \/ s = <<>>
  \/ /\ Len(s) >= 4
     /\ s[1].kind = "byte" /\ s[1].v \in {DISPLAY_HEADER, AUDIO_HEADER}
     /\ s[2].kind = "byte" /\ s[2].v \in 0..255
     /\ s[3].kind = "byte" /\ s[3].v \in 0..255
     /\ s[4].kind = "run" /\ s[4].v = s[2].v * 256 + s[3].v
     /\ Parses(SubSeq(s, 5, Len(s)))

\* C9: the bytes written to each TCP client, in order, are a concatenation of
\* complete records tag || length || payload with tag 0x44 or 0x41 and a
\* length field equal to the payload's length.
C9_StreamIsWholeRecords ==
  \A c \in TcpClientIds : Parses(concat(wire[c]))

\* A client's stream holds a display record with the largest payload the
\* length field can express, followed by an audio record.
C9_Witness ==
  \E c \in tcpClients :
    LET s == concat(wire[c])
    IN  /\ Len(s) = 8
        /\ s[1].v = DISPLAY_HEADER /\ s[4].v = MaxUInt16
        /\ s[5].v = AUDIO_HEADER

\* C10: the display payloads a connected client has received are, in order,
\* the chunks of every flush made while it was connected.
C10_InOrderNoneSkipped ==
  \A c \in tcpClients : DisplayIdsOf(concat(wire[c])) = flushedSince[c]

\* C20: a text command whose row y/10 or column x/8 lies outside the grid
\* leaves every cell as it was; any other text command leaves every cell but
\* the one at (y/10, x/8) as it was and stores its character, fg and bg there.
C20_TextGridBounds ==
  [][gridCmd'.type = "text"
       => LET row == gridCmd'.y \div CHAR_HEIGHT
              col == gridCmd'.x \div CHAR_WIDTH
          IN  IF row \in 0..(ROWS - 1) /\ col \in 0..(COLS - 1)
                THEN /\ \A r \in 0..(ROWS - 1), c \in 0..(COLS - 1) :
                          (r # row \/ c # col) => textBuffer'.cells[r][c] = textBuffer.cells[r][c]
                     /\ textBuffer'.cells[row][col] =
                          [char |-> gridCmd'.char, fg |-> gridCmd'.fg, bg |-> gridCmd'.bg]
                ELSE textBuffer'.cells = textBuffer.cells]_vars

\* The last cell of the grid was written after the first one, which kept its
\* contents.
C20_Witness ==
  /\ gridCmd.type = "text"
  /\ gridCmd.x = SCREEN_WIDTH - 1 /\ gridCmd.y = SCREEN_HEIGHT - 1
  /\ textBuffer.cells[ROWS - 1][COLS - 1] = [char |-> DataByte, fg |-> Grey, bg |-> Black]
  /\ textBuffer.cells[0][0] = [char |-> DataByte, fg |-> White, bg |-> Black]

\* C19 (as amended): the frames decoded from the encodings of byte sequences
\* fed back-to-back are the non-empty ones among those sequences, in order;
\* the encoding of a single non-empty sequence decodes to exactly that frame.
C19_RoundTrip ==
  /\ slipFrames = SelectSeq(encSent, LAMBDA B : B # <<>>)
  /\ slipBuffer = <<>>
  /\ slipState = "Normal"

\* Two sequences holding END and ESC bytes were encoded and decoded.
C19_Witness ==
  /\ Len(encSent) = 2
  /\ encSent[1] = <<END>>
  /\ encSent[2] = <<ESC>>
  /\ slipFrames = encSent

\* C19 (as claimed): the frames decoded are exactly the sequences encoded,
\* one frame for each.
C19_AsClaimed ==
  slipFrames = encSent

\* C14: a consumer given only the commands the delta cache admitted shows
\* the same cells as a consumer given every command.
C14_AdmittedViewEqualsFullView ==
  viewAdmitted.cells = viewAll.cells

\* Call i of the history empties the caches: reset(), or a rectangle at or
\* above the screen-clear threshold.
Empties(i) ==
  \/ deltaHist[i].kind = "reset"
  \/ /\ deltaHist[i].kind = "call"
     /\ deltaHist[i].cmd.type = "rect"
     /\ deltaHist[i].cmd.width * deltaHist[i].cmd.height >= SCREEN_CLEAR_WIDTH * SCREEN_CLEAR_HEIGHT

\* The calls before i that stored a record under the key of call i and that
\* no emptying of the caches separates from i.
StoredBefore(i) ==
  {j \in 1..(i - 1) :
     /\ deltaHist[j].kind = "call"
     /\ deltaHist[j].send
     /\ ~Empties(j)
     /\ deltaHist[j].cmd.type = deltaHist[i].cmd.type
     /\ deltaHist[j].cmd.x = deltaHist[i].cmd.x
     /\ deltaHist[j].cmd.y = deltaHist[i].cmd.y
     /\ (deltaHist[i].cmd.type = "rect"
           => /\ deltaHist[j].cmd.width = deltaHist[i].cmd.width
              /\ deltaHist[j].cmd.height = deltaHist[i].cmd.height)
     /\ \A k \in (j + 1)..(i - 1) : ~Empties(k)}

LastStored(i) == CHOOSE j \in StoredBefore(i) : \A k \in StoredBefore(i) : k <= j

\* C15: a text command is suppressed exactly when the record last stored
\* under its (x,y) since the caches were last emptied has the same char code,
\* fg and bg; a rectangle below the threshold exactly when the record last
\* stored under its (x,y,w,h) has the same color.
C15_SuppressedIffUnchanged ==
  \A i \in 1..Len(deltaHist) :
    LET e == deltaHist[i]
    IN  (e.kind = "call" /\ e.cmd.type \in {"text", "rect"} /\ ~Empties(i))
          => (~e.send <=>
                /\ StoredBefore(i) # {}
                /\ LET old == deltaHist[LastStored(i)].cmd
                   IN  IF e.cmd.type = "text"
                         THEN old.charCode = e.cmd.charCode /\ old.fg = e.cmd.fg /\ old.bg = e.cmd.bg
                         ELSE old.color = e.cmd.color)

\* The same text command was admitted, then suppressed; the same position
\* with another foreground was admitted again.
C15_Witness ==
  /\ Len(deltaHist) = 3
  /\ deltaHist[1] = [kind |-> "call", cmd |-> DeltaText(DataByte, 0, White), send |-> TRUE]
  /\ deltaHist[2] = [kind |-> "call", cmd |-> DeltaText(DataByte, 0, White), send |-> FALSE]
  /\ deltaHist[3] = [kind |-> "call", cmd |-> DeltaText(DataByte, 0, Grey), send |-> TRUE]

\* C16: right after a rectangle with area at least 320*200 both maps are
\* empty, and the first text command and the first rectangle after it are
\* admitted.
C16_ScreenClearResets ==
  \A j \in 1..Len(deltaHist) :
    (deltaHist[j].kind = "call" /\ Empties(j))
      => /\ deltaHist[j].send
         /\ (j = Len(deltaHist) => (DOMAIN delta.textCache = {} /\ DOMAIN delta.rectCache = {}))
         /\ \A i \in (j + 1)..Len(deltaHist) :
              (/\ deltaHist[i].kind = "call"
               /\ deltaHist[i].cmd.type \in {"text", "rect"}
               /\ \A k \in (j + 1)..(i - 1) :
                    ~(deltaHist[k].kind = "call" /\ deltaHist[k].cmd.type = deltaHist[i].cmd.type))
                => deltaHist[i].send

\* A cached text was admitted again after a screen clear.
C16_Witness ==
  /\ Len(deltaHist) = 3
  /\ deltaHist[1] = [kind |-> "call", cmd |-> DeltaText(DataByte, 0, White), send |-> TRUE]
  /\ deltaHist[2].kind = "call" /\ Empties(2)
  /\ deltaHist[3] = deltaHist[1]

\* C17: parseCommand returns nothing or a command matching the length table:
\* a rectangle only for 5, 8, 9 or 12 bytes, a text only for 12 bytes, a wave
\* only for at least 4 bytes, a joypad only for 2 or 3 bytes, a system only
\* for 6 bytes.
C17_LengthTable ==
  /\ parsedCmd.type \in {"null", "rect", "text", "wave", "jpad", "system"}
  /\ parsedCmd.type = "rect" => Len(parsedFrame) \in {5, 8, 9, 12}
  /\ parsedCmd.type = "text" => Len(parsedFrame) = 12
  /\ parsedCmd.type = "wave" => Len(parsedFrame) >= 4
  /\ parsedCmd.type = "jpad" => Len(parsedFrame) \in {2, 3}
  /\ parsedCmd.type = "system" => Len(parsedFrame) = 6

\* C18: a rectangle parsed from a 5-byte or 9-byte frame carries the color of
\* the most recent 8-byte or 12-byte rectangle parsed before it.
C18_ColorOfLastColorForm ==
  (/\ parsedCmd.type = "rect"
   /\ Len(parsedFrame) \in {5, 9}
   /\ colorFormSeen)
    => parsedCmd.color = colorFormColor

\* The events of the log at which a command was broadcast.
BroadcastAt == {i \in 1..Len(pipeLog) : pipeLog[i].ev = "broadcastCommand"}

\* C11: when a chunk is fed to the decoder, and when a command derived from
\* it is broadcast to the command subscribers, that chunk and every chunk
\* before it have been handed to the raw-display subscribers and, if there is
\* a TCP proxy, to the TCP broadcaster.
C11_RawBytesFirst ==
  \A i \in 1..Len(pipeLog) :
    pipeLog[i].ev \in {"slip.feed", "broadcastCommand"}
      => \A c \in 1..pipeLog[i].chunk :
           /\ \E j \in 1..(i - 1) : pipeLog[j].ev = "broadcastDisplay" /\ pipeLog[j].chunk = c
           /\ tcpProxy => \E j \in 1..(i - 1) :
                            pipeLog[j].ev = "tcpProxy.broadcast" /\ pipeLog[j].chunk = c

\* With a TCP proxy, a text frame split over two chunks was broadcast as a
\* command when the second chunk arrived.
C11_Witness ==
  /\ tcpProxy
  /\ chunkCount = 2
  /\ \E i \in BroadcastAt : pipeLog[i].chunk = 2 /\ pipeLog[i].cmd.type = "text"
  /\ \A i \in BroadcastAt : pipeLog[i].chunk = 2

\* The commands a delta cache admits when given cmds[i..] in order.
RECURSIVE Admitted(_, _, _)
Admitted(cmds, dd, i) ==
  IF i > Len(cmds) THEN <<>>
  ELSE LET r == shouldSend(dd, cmds[i])
       IN  (IF r.send THEN <<cmds[i]>> ELSE <<>>) \o Admitted(cmds, r.delta, i + 1)

BroadcastCommands ==
  LET n == Cardinality(BroadcastAt)
      nth[k \in 1..n] == CHOOSE i \in BroadcastAt : Cardinality({j \in BroadcastAt : j <= i}) = k
  IN  [k \in 1..n |-> pipeLog[nth[k]].cmd]

\* C12: the commands broadcast are the parsed commands a delta cache admits
\* when it is given them in order: none it suppresses is broadcast.
C12_SuppressedNotBroadcast ==
  BroadcastCommands = Admitted(BroadcastCommands, NewDisplayDelta, 1)

\* The cells and the framebuffer as they were when the command before the
\* one of event i was broadcast.
CellsBefore(i) ==
  LET earlier == {j \in BroadcastAt : j < i}
  IN  IF earlier = {} THEN NewTextBuffer.cells
      ELSE pipeLog[CHOOSE j \in earlier : \A k \in earlier : k <= j].cells

FramebufferBefore(i) ==
  LET earlier == {j \in BroadcastAt : j < i}
  IN  IF earlier = {} THEN <<>>
      ELSE pipeLog[CHOOSE j \in earlier : \A k \in earlier : k <= j].framebuffer

\* C13: when a command is broadcast, the text grid holds the cells the
\* command gives it and the framebuffer has drawn the command.
C13_ProjectedBeforeBroadcast ==
  \A i \in BroadcastAt :
    LET e == pipeLog[i]
        before == [NewTextBuffer EXCEPT !.cells = CellsBefore(i)]
    IN  /\ e.cells = applyToView(before, e.cmd).cells
        /\ e.framebuffer = IF e.cmd.type \in {"text", "rect", "wave"}
                             THEN Append(FramebufferBefore(i), e.cmd)
                             ELSE FramebufferBefore(i)

\* A text, then a rectangle over it and a waveform were broadcast; the grid
\* showed the text at the first broadcast and the rectangle at the second.
C13_Witness ==
  /\ Cardinality(BroadcastAt) = 3
  /\ BroadcastCommands[1].type = "text"
  /\ BroadcastCommands[2].type = "rect"
  /\ BroadcastCommands[3].type = "wave"
  /\ \E i \in BroadcastAt : pipeLog[i].cells[0][0].char = DataByte
  /\ gridBuffer.cells[0][0] = [char |-> Space, fg |-> White, bg |-> Grey]
  /\ Len(framebuffer) = 3

\* C21: the cursor starts at (0,0); an in-range text command whose fg has
\* r > 200 and g > 200 moves it to its cell, a rectangle at the origin at
\* least 320 wide and 240 high puts it back to (0,0), and every other text or
\* rectangle command leaves it where it was.
C21_CursorFollowsHighlight ==
  /\ textBuffer.cursorRow = 0 /\ textBuffer.cursorCol = 0
  /\ [][LET cmd == gridCmd'
            inRange == cmd.x < SCREEN_WIDTH /\ cmd.y < SCREEN_HEIGHT
            highlight == cmd.fg.r > HIGHLIGHT_THRESHOLD /\ cmd.fg.g > HIGHLIGHT_THRESHOLD
            fullScreen == /\ cmd.x = 0 /\ cmd.y = 0
                          /\ cmd.width >= SCREEN_WIDTH /\ cmd.height >= SCREEN_HEIGHT
        IN  <<textBuffer'.cursorRow, textBuffer'.cursorCol>> =
              IF cmd.type = "text" /\ inRange /\ highlight
                THEN <<cmd.y \div CHAR_HEIGHT, cmd.x \div CHAR_WIDTH>>
              ELSE IF cmd.type = "rect" /\ fullScreen
                THEN <<0, 0>>
              ELSE <<textBuffer.cursorRow, textBuffer.cursorCol>>]_vars

\* A highlighted text moved the cursor to the last cell, and a text without
\* highlight written at the first cell left it there.
C21_Witness ==
  /\ gridCmd.type = "text" /\ gridCmd.x = 0 /\ gridCmd.y = 0 /\ gridCmd.fg = Grey
  /\ textBuffer.cells[0][0].fg = Grey
  /\ textBuffer.cursorRow = ROWS - 1 /\ textBuffer.cursorCol = COLS - 1

\* The bytes the ring buffer stores, oldest first.
Stored == [i \in 1..ring.count |-> ring.buffer[((ring.readPos + i - 1) % ring.size) + 1]]

\* C22: after any push, pop, peek and clear, under either policy, the length
\* is between 0 and the capacity, available is the capacity minus the
\* length, both indices lie in the backing store and the write index is the
\* read index plus the length, modulo the capacity.
C22_RingIndices ==
  /\ ring.count \in 0..ring.size
  /\ available(ring) = ring.size - ring.count
  /\ ring.readPos \in 0..(ring.size - 1)
  /\ ring.writePos \in 0..(ring.size - 1)
  /\ ring.writePos = (ring.readPos + ring.count) % ring.size
  /\ Len(ring.buffer) = ring.size

\* A full buffer whose indices alias in the middle of the backing store, after
\* a clear.
C22_Witness ==
  /\ ringCleared
  /\ ring.count = ring.size
  /\ ring.readPos = 1 /\ ring.writePos = 1

\* C23: in overwrite mode, as long as nothing was popped, the buffer holds
\* the last min(bytes pushed, capacity) bytes pushed, in push order.
C23_OverwriteKeepsLast ==
  (ring.allowOverwrite /\ ringNoPop)
    => LET n == Len(ringPushed)
           kept == Min(n, ring.size)
       IN  Stored = SubSeq(ringPushed, n - kept + 1, n)

\* After pushes of more than twice the capacity in all, a peek of the whole
\* buffer returned the trailing bytes.
C23_Witness ==
  /\ ring.allowOverwrite /\ ringNoPop /\ ~ringCleared
  /\ ringLast.op = "peek" /\ ringLast.ret = RingCapacity
  /\ Len(ringPushed) = 2 * RingCapacity + 3
  /\ ringLast.out = SubSeq(ringPushed, RingCapacity + 4, 2 * RingCapacity + 3)

\* C24: without overwrite and without clear, the bytes popped so far followed
\* by the bytes stored are the bytes pushed successfully, so the bytes popped
\* are a prefix of them; each pop returns min(requested, length) bytes.
C24_PoppedIsPrefix ==
  /\ []((~ring.allowOverwrite /\ ~ringCleared) => ringPopped \o Stored = ringPushed)
  /\ [][(~ring.allowOverwrite /\ ringLast'.op = "pop")
          => /\ ringLast'.ret = Min(ringLast'.arg, ring.count)
             /\ Len(ringLast'.out) = ringLast'.ret
             /\ ring'.count = ring.count - ringLast'.ret]_vars

\* Four numbered bytes were pushed in two pushes around a pop, and a pop that
\* wrapped past the end of the backing store returned the last three.
C24_Witness ==
  /\ ~ring.allowOverwrite
  /\ ringLast.op = "pop" /\ ringLast.out = <<2, 3, 4>>
  /\ ringPopped = <<1, 2, 3, 4>>
  /\ ring.readPos = 1

\* C25: without overwrite, a push of more bytes than are available returns
\* -1 and leaves the backing store, the length and both indices as they were.
C25_OverflowRejected ==
  [][(~ring.allowOverwrite /\ ringLast'.op = "push" /\ ringLast'.arg > available(ring))
       => (ringLast'.ret = -1 /\ ring' = ring)]_vars

\* A push of two bytes was rejected by a buffer with one byte free.
C25_Witness ==
  /\ ~ring.allowOverwrite
  /\ ringLast.op = "push" /\ ringLast.arg = 2 /\ ringLast.ret = -1
  /\ ring.count = RingCapacity - 1
  /\ Stored = ringPushed

\* C26: at most one write stream is open for recording at a time, and every
\* open stream is the one fileStream refers to, so that a stopRecording
\* closes it.
C26_OneSinkNoneOrphaned ==
  /\ Cardinality({id \in SinkIds : sinks[id] = "open"}) <= 1
  /\ \A id \in SinkIds : sinks[id] = "open" => hubFileStream = id

\* C29: more than one second after a stop(), the process that stop() was
\* about is no longer running.
C29_NoProcessOutlivesStop ==
  \A pid \in Pids : cap.age[pid] = 2 => cap.procs[pid] # "running"

\* C27: once a reconnect of the serial link has been dealt with, a capture
\* that had been started, and that has an audio client or feeds the TCP
\* stream, has been started again since.
C27_RestartedOnReconnect ==
  (/\ streamer.reconnects > 0
   /\ streamer.timers = 0 /\ streamer.waits = 0 /\ ~streamer.startPromise
   /\ streamer.startedAtConnect
   /\ streamer.clients > 0 \/ streamer.external)
    => streamer.attempts > streamer.attemptsAtConnect

\* C28: every failure of the capture process handled while there is an audio
\* client is broadcast as a control message, the capture is then marked
\* stopped, and an audio client added while the capture is stopped starts it.
C28_FailurePropagated ==
  /\ [](streamer.failures <= streamer.control)
  /\ [](streamerLast \in {"close", "error"} => ~cap.running)
  /\ [][(streamerLast' = "addClient" /\ ~cap.running /\ ~streamer.startPromise)
          => streamer'.attempts > streamer.attempts]_vars

Rank(step) ==
  CASE step = "screenInterval" -> 1
    [] step \in {"capture", "recording"} -> 2
    [] step \in {"tcpFlush", "tcpClose"} -> 3
    [] step = "sentinel" -> 4
    [] step = "serialClose" -> 5
    [] step = "exit" -> 6
    [] OTHER -> 0

OrderedSteps == SelectSeq(shut.log, LAMBDA step : Rank(step) > 0)

\* C30: the steps of shutdown are taken in the order: screen broadcast
\* interval, audio capture and recording, TCP flush and close, 0x44 sentinel,
\* close of the serial port, exit; and at the exit the interval is cleared,
\* the capture and the recording are stopped, the batch of the TCP proxy is
\* flushed and its listener closed, and a link that was connected has been
\* sent the sentinel and closed.
C30_ShutdownOrder ==
  /\ \A i, j \in 1..Len(OrderedSteps) :
       i < j => Rank(OrderedSteps[i]) <= Rank(OrderedSteps[j])
  /\ shut.pc = "exited" =>
       /\ ~shut.interval /\ ~shut.capture /\ ~shut.recording
       /\ ~shut.batch /\ ~shut.listener /\ ~shut.connected
       /\ shut.wasConnected =>
            \E i, j \in 1..Len(shut.log) :
              i < j /\ shut.log[i] = "sentinel" /\ shut.log[j] = "serialClose"

\* What a single shutdown() leaves: no interval, no capture process, the
\* recording stopped if the streamer was running, no batch, no listener, no
\* HTTP server and no serial link.
Stopped(sh) ==
  [interval |-> sh.interval, capture |-> sh.capture, recording |-> sh.recording,
   batch |-> sh.batch, listener |-> sh.listener, http |-> sh.http,
   connected |-> sh.connected]

StoppedOnce ==
  [interval |-> FALSE, capture |-> FALSE,
   recording |-> shut.wasRecording /\ ~shut.wasRunning,
   batch |-> FALSE, listener |-> FALSE, http |-> FALSE, connected |-> FALSE]

\* C31: a second call of shutdown() while the first is in progress raises no
\* error of its own (disconnect() throws only if the serial port is lost),
\* and whichever call exits leaves the state a single call leaves.
C31_ShutdownIdempotent ==
  /\ shut.pc2 = "rejected" => shut.lost
  /\ Exited(shut) => Stopped(shut) = StoppedOnce

C31_Witness ==
  /\ shut.pc2 = "exited" /\ shut.pc \in {"awaitTcp", "awaitSentinel", "awaitClose"}
  /\ shut.wasConnected /\ shut.tcp /\ ~shut.lost

\* C32: when the recovery ladder run by a reconnect tick has not brought the
\* device back, that step has called the onError hook, and it leaves the
\* reconnect timer as it was.
C32_LadderFailureReported ==
  /\ []((lastOp.name = "tickRecovery" /\ ~lastLadderOk) => errorsFired > 0)
  /\ [][(lastOp'.name = "tickRecovery" /\ ~lastLadderOk')
          => reconnectTimer' = reconnectTimer]_vars

\* The level of a procedure; resetAllControllers is none of the six.
LevelOf(method) ==
  CASE method = "resetLevel1" -> 1
    [] method = "resetLevel2" -> 2
    [] method = "resetLevel3" -> 3
    [] method = "resetLevel4_D3cold" -> 4
    [] method = "resetLevel5_MultiCycle" -> 5
    [] method = "resetLevel6_RuntimePM" -> 6
    [] OTHER -> 0

LevelsTried ==
  LET six == SelectSeq(ult.tried, LAMBDA m : LevelOf(m) > 0)
  IN  [i \in 1..Len(six) |-> LevelOf(six[i])]

\* C33: ultimateReset() runs the six procedures in the order of their levels:
\* no level is tried before a lower one, and a call in which every procedure
\* fails has tried levels 1 to 6 in that order.
C33_UltimateInLevelOrder ==
  /\ \A i, j \in 1..Len(LevelsTried) : i < j => LevelsTried[i] < LevelsTried[j]
  /\ ult.result = "failed" => LevelsTried = <<1, 2, 3, 4, 5, 6>>

\* The button table of the protocol.
ButtonMask ==
  [edit |-> 1, opt |-> 2, right |-> 4, start |-> 8, shift |-> 16, down |-> 32,
   up |-> 64, left |-> 128]

\* The key of a request that is a single press of a named key, "" otherwise.
SinglePressKey(q) ==
  CASE q.route = "key" /\ q.json /\ q.key \in KeyNames -> q.key
    [] q.route = "keys" /\ q.json /\ q.press \in KeyNames
         /\ ~(q.hold # "" /\ isValidKey(q.hold)) -> q.press
    [] OTHER -> ""

PressOf(key) ==
  <<Written(<<KEY_COMMAND, ButtonMask[key]>>), Waited(50), Written(<<KEY_COMMAND, 0>>)>>

IsPrefix(a, b) == Len(a) <= Len(b) /\ a = SubSeq(b, 1, Len(a))

\* C34: a single press of a named key writes 0x43 and the bitmask of the
\* key, waits 50 ms, then writes 0x43 0x00: what a press has written so far
\* is a prefix of that, and a press that was answered 200 (or, on the
\* WebSocket, ended with nothing left to send after its last write) wrote all
\* of it.
C34_SinglePress ==
  \A id \in RequestIds :
    LET r == input.reqs[id]
        key == SinglePressKey(r.q)
    IN  key # "" =>
          /\ IsPrefix(r.wrote, PressOf(key))
          /\ r.status = 200 => r.wrote = PressOf(key)
          /\ r.pc = "wait" => r.wrote = SubSeq(PressOf(key), 1, 2)

C34_Witness ==
  /\ input.reqs[1].q = KeyRequest("rest", "left")
  /\ input.reqs[1].status = 200
  /\ input.serialOut = <<[req |-> 1, bytes |-> <<67, 128>>], [req |-> 1, bytes |-> <<67, 0>>]>>

\* The input of a REST request is invalid: a key name that is none of the
\* eight, a bitmask that is no number of 0..255, or a body that is not JSON.
InvalidInput(q) ==
  \/ ~q.json
  \/ q.route = "key" /\ q.key \notin KeyNames
  \/ q.route = "raw" /\ ~(q.isNumber /\ q.bitmask \in 0..255)
  \/ q.route = "keys" /\ (q.press \notin KeyNames \/ (q.hold # "" /\ q.hold \notin KeyNames))

\* C35: a REST input request with an invalid key name, an invalid bitmask or
\* a body that is not JSON is answered 400, and writes nothing to the link.
C35_InvalidInputIs400 ==
  \A id \in RequestIds :
    LET r == input.reqs[id]
    IN  (r.q.origin = "rest" /\ InvalidInput(r.q) /\ r.pc = "done") => r.status = 400

\* The mask of the write at position i of the serial link.
MaskAt(i) == input.serialOut[i].bytes[2]

\* C39: a write of one request never clears a key that another request has
\* pressed and will still write about: between two writes of a request, no
\* other request writes a mask without the keys of the first of them.
C39_NoForeignRelease ==
  \A i, j, k \in 1..Len(input.serialOut) :
    (/\ i < j /\ j < k
     /\ input.serialOut[i].req = input.serialOut[k].req
     /\ input.serialOut[j].req # input.serialOut[i].req
     /\ \A m \in (i + 1)..(j - 1) : input.serialOut[m].req # input.serialOut[i].req)
      => Bits(MaskAt(i)) \subseteq Bits(MaskAt(j))

\* The ticks of the reconnect loop that are awaiting a scan, an open or a
\* recovery.
TicksInFlight == {t \in BagToSet(tasks) : t.who = "tick"}

TickCount ==
  LET RECURSIVE sum(_)
      sum(S) == IF S = {} THEN 0
                ELSE LET t == CHOOSE x \in S : TRUE IN CopiesIn(t, tasks) + sum(S \ {t})
  IN  sum(TicksInFlight)

\* C36: reconnect ticks never overlap: at most one tick is awaiting its scan,
\* open or recovery, and at most one SerialPort is being opened or held.
C36_TicksNeverOverlap ==
  /\ TickCount <= 1
  /\ Cardinality({h \in Handles : hstate[h] \in {"opening", "open", "errored"}}) <= 1

AliveProcs == {pid \in Pids : cap.procs[pid] = "running"}

\* C38: at most one capture process is alive at a time, and the capture
\* reports running exactly when its current process is alive: a capture that
\* is running has a current process that is alive or whose close event is
\* still to be handled, and a current process that is alive is reported
\* running, whatever event of an earlier process comes late.
C38_OneCaptureProcess ==
  /\ Cardinality(AliveProcs) <= 1
  /\ cap.running =>
       /\ cap.process # NoProcess
       /\ \/ cap.process \in AliveProcs
          \/ \E e \in cap.closeQ : e[1] = cap.process
  /\ cap.process \in AliveProcs => cap.running

\* C40: input of a TCP client that arrives while the link is disconnected is
\* discarded: no promise is left rejected and unhandled, and the server
\* keeps running, so that later input is forwarded.
C40_InputWhileDisconnectedDiscarded ==
  /\ clientIn.rejections = 0
  /\ clientIn.alive

====
